---- MODULE Spec2Model ----
(***************************************************************************)
(* Energy consumption engine of FlightEnergySimulation                     *)
(* (src/backend/services/energy_calculator.py).                            *)
(*                                                                         *)
(* Python floats are modelled as exact rationals <<n, d>> in lowest terms  *)
(* with d > 0, so that results are those of real arithmetic (rounding in   *)
(* the last binary digit is not modelled).  A finite double whose square   *)
(* is outside the double range (for instance 1e200) is the value HUGE:     *)
(* Python raises OverflowError when it is squared.                         *)
(***************************************************************************)
EXTENDS Integers, Sequences, FiniteSets, TLC

\* ------------------------------------------------------------------------
\* Rational arithmetic
\* ------------------------------------------------------------------------
IAbs(i) == IF i < 0 THEN -i ELSE i

RECURSIVE Gcd(_, _)
Gcd(a, b) == IF b = 0 THEN a ELSE Gcd(b, a % b)

\* n/d in lowest terms with a positive denominator (d # 0)
R(n, d) ==
    LET g == Gcd(IAbs(n), IAbs(d))
        s == IF d < 0 THEN -1 ELSE 1
    IN  <<(s * n) \div g, (s * d) \div g>>

I(n) == <<n, 1>>

RMul(x, y) ==
    LET a == R(x[1], y[2])
        b == R(y[1], x[2])
    IN  <<a[1] * b[1], a[2] * b[2]>>

RDiv(x, y) == RMul(x, R(y[2], y[1]))

RAdd(x, y) ==
    LET g == Gcd(x[2], y[2])
    IN  R(x[1] * (y[2] \div g) + y[1] * (x[2] \div g), (x[2] \div g) * y[2])

RNeg(x) == <<-x[1], x[2]>>
RSub(x, y) == RAdd(x, RNeg(y))
RAbs(x) == <<IAbs(x[1]), x[2]>>
RIsZero(x) == x[1] = 0
RPos(x) == x[1] > 0
RNegative(x) == x[1] < 0
RLt(x, y) == RSub(x, y)[1] < 0
RLe(x, y) == RSub(x, y)[1] <= 0
RMin(x, y) == IF RLe(x, y) THEN x ELSE y
RMax(x, y) == IF RLe(y, x) THEN x ELSE y
RSq(x) == <<x[1] * x[1], x[2] * x[2]>>

\* floor(x * 10^k) / 10^k for the scale s = 10^k: a value kept to k decimals
RECURSIVE FracDigits(_, _, _)
FracDigits(r, d, s) ==
    IF s = 1 THEN 0
    ELSE ((r * 10) \div d) * (s \div 10) + FracDigits((r * 10) % d, d, s \div 10)

RFloorTo(x, s) ==
    LET q == x[1] \div x[2]
        r == x[1] % x[2]
    IN  R(q * s + FracDigits(r, x[2], s), s)

\* x rounded to the decimals of the scale s = 10^k (half up)
RRoundTo(x, s) == RFloorTo(RAdd(RFloorTo(x, 10 * s), <<1, 2 * s>>), s)

\* round(x, 2) of Python
RRound2(x) == RRoundTo(x, 100)

RECURSIVE ISqrtIter(_, _)
ISqrtIter(n, r) ==
    LET r2 == (r + n \div r) \div 2
    IN  IF r2 >= r THEN r ELSE ISqrtIter(n, r2)

\* largest integer whose square is at most n
ISqrt(n) == IF n < 2 THEN n ELSE ISqrtIter(n, n)

\* math.sqrt, to the decimals of the scale s (exact on squares of such values)
RSqrt(x, s) ==
    LET y == RFloorTo(x, s * s)
    IN  R(ISqrt(y[1] * ((s * s) \div y[2])), s)

\* A finite double beyond the square root of the double range
HUGE == <<1, 0>>
IsHuge(x) == x[2] = 0


\* Optional[float] = None
NONE == <<0, 0>>
IsNone(x) == x = NONE
\* Python truth value of an Optional[float]: None and 0.0 are false
Truthy(x) == ~IsNone(x) /\ ~RIsZero(x)
\* Python "a or b" on an Optional[float]
OrElse(x, dflt) == IF Truthy(x) THEN x ELSE dflt

\* The outcome of a call: a returned value, or the exception it raised
Ok(v) == [exc |-> "none", val |-> v]
Raise(e) == [exc |-> e, val |-> I(0)]
IsOk(r) == r.exc = "none"

\* ------------------------------------------------------------------------
\* Fixed-point arithmetic of the power and atmosphere formulas: a value v is
\* the integer floor(v * FS), four decimals.  Products and quotients are
\* truncated to that grid, as each floating-point operation is rounded.
\* ------------------------------------------------------------------------
FS == 100 * 100

\* the literal n/d
Fx(n, d) == (n * FS) \div d

FromR(x) == LET y == RFloorTo(x, FS) IN y[1] * (FS \div y[2])
ToR(a) == R(a, FS)

Sgn(a) == IF a < 0 THEN -1 ELSE 1
FMin(a, b) == IF a <= b THEN a ELSE b
FMax(a, b) == IF a >= b THEN a ELSE b

FMulAbs(a, b) ==
    (a \div FS) * b + (a % FS) * (b \div FS) + ((a % FS) * (b % FS)) \div FS

FMul(a, b) == Sgn(a) * Sgn(b) * FMulAbs(IAbs(a), IAbs(b))

FDivAbs(a, b) == (a \div b) * FS + FracDigits(a % b, b, FS)

\* a / b for b # 0
FDiv(a, b) == Sgn(a) * Sgn(b) * FDivAbs(IAbs(a), IAbs(b))

FSq(a) == FMul(a, a)

\* math.sqrt of a value >= 0
FSqrt(a) == IF a < 20000000 THEN ISqrt(a * 100) * 10 ELSE ISqrt(a) * 100

\* ------------------------------------------------------------------------
\* EnergyCalculator: constants, atmosphere
\* ------------------------------------------------------------------------
AIR_DENSITY == Fx(1225, 1000)
GRAVITY == Fx(981, 100)
\* math.pi
PI == Fx(31416, 10000)

\* x ** 5.255 for x = 1 - u close to 1, by the binomial series to the third
\* order, 1 - 5.255 u + 11.18 u^2 - 12.13 u^3 (the error is below 1e-4 for
\* altitudes up to 2000 m)
Pow5255(x) ==
    LET u == FS - x
    IN  FS - FMul(Fx(5255, 1000), u) + FMul(Fx(1118, 100), FSq(u))
           - FMul(Fx(1213, 100), FMul(u, FSq(u)))

\* Lines 51-68; the altitude is a rational, the density a fixed-point value
calculate_air_density(altitude) ==
    LET alt == RMax(I(0), altitude)
        temperature_sea_level == R(28815, 100)
        temperature == IF IsHuge(altitude) THEN I(200)
                       ELSE RMax(I(200), RSub(temperature_sea_level, RMul(R(65, 10000), alt)))
        pressure_ratio == FMax(Fx(1, 100), Pow5255(FromR(RDiv(temperature, temperature_sea_level))))
        air_density == FMul(AIR_DENSITY, pressure_ratio)
    IN  FMax(Fx(1, 100), air_density)

\* ------------------------------------------------------------------------
\* Power models.  Arguments and results are rationals, the formulas are
\* evaluated in fixed point.  A wind sample is passed as a sequence: <<>> is
\* None, <<w>> is the WindData object w (always true in a Python condition).
\* ------------------------------------------------------------------------

\* A power as it is returned: a rational, kept to 0.1 W
Watts(p) == R(p \div 1000, 10)

\* Optional[float] configuration field with its "or" default, in fixed point
FieldOr(x, dflt) == IF Truthy(x) THEN FromR(x) ELSE dflt

_calculate_hover_motors_count(config) ==
    LET base_count ==
            CASE config.frame_type = "tri" -> 3
              [] config.frame_type = "quad" -> 4
              [] config.frame_type = "hexa" -> 6
              [] config.frame_type = "octo" -> 8
              [] OTHER -> 4
    IN  IF config.motor_config = "coaxial" THEN base_count * 2 ELSE base_count

\* Lines 217-266 (air_density in fixed point, result in fixed point)
estimate_hover_power(config, air_density0, hover_motors_count) ==
    IF Truthy(config.hover_power) THEN FromR(config.hover_power)
    ELSE
        LET thrust == FMul(FromR(config.mass), GRAVITY)
            thrust_per_motor == thrust \div (IF hover_motors_count > 1 THEN hover_motors_count ELSE 1)
            rotor_diameter == FMax(Fx(1, 10), FieldOr(config.rotor_diameter, Fx(3, 10)))
            air_density == FMax(Fx(1, 10), air_density0)
            rotor_area == FMul(PI, FSq(rotor_diameter \div 2))
            denominator == FMul(2 * air_density, rotor_area)
            sqrt_arg0 == FDiv(thrust_per_motor, denominator)
            sqrt_arg == IF sqrt_arg0 < 0 THEN 0 ELSE sqrt_arg0
            ideal_power_per_motor == FMul(thrust_per_motor, FSqrt(sqrt_arg))
            figure_of_merit == Fx(7, 10)
            actual_power_per_motor == FDiv(ideal_power_per_motor, figure_of_merit)
            total_hover_power == actual_power_per_motor * hover_motors_count
        IN  IF denominator <= 0
            THEN FMul(FMul(FromR(config.mass), GRAVITY), Fx(15, 1))
            ELSE IAbs(total_hover_power)

\* The efficiency factor, had there been no sweet spot
NoSweetSpot(speed, config) == FS

\* Lines 268-312
_calculate_speed_efficiency_factor(speed, config) ==
    LET mass == FromR(config.mass)
        sweet_spot_min == FMax(Fx(2, 1), FMul(mass, Fx(3, 10)))
        sweet_spot_max == FMax(Fx(4, 1), FMul(mass, Fx(5, 10)))
        sweet_spot_center == (sweet_spot_min + sweet_spot_max) \div 2
        efficiency_multiplier == Fx(45, 100)
        max_efficiency_gain == Fx(10, 100)
        base_improvement == FMul(FDiv(speed, sweet_spot_min), Fx(25, 100))
        normalized_pos == FDiv(speed - sweet_spot_center, sweet_spot_max - sweet_spot_center)
        efficiency_gain == FMul(FMul(max_efficiency_gain, efficiency_multiplier),
                                FS - FSq(normalized_pos))
        excess_speed == speed - sweet_spot_max
        penalty == FMin(Fx(4, 10), FMul(excess_speed, Fx(3, 100)))
    IN  IF speed = 0 THEN FS
        ELSE IF speed <= sweet_spot_min
             THEN FS - FMul(base_improvement, efficiency_multiplier)
        ELSE IF speed <= sweet_spot_max
             THEN Fx(75, 100) - efficiency_gain
        ELSE Fx(75, 100) + penalty

\* Lines 314-335
_calculate_dynamic_drag_coefficient(speed, config) ==
    LET base_cd == FieldOr(config.drag_coefficient, Fx(3, 100))
        speed_factor == FMul(speed - Fx(8, 1), Fx(15, 100))
    IN  IF speed <= Fx(3, 1) THEN base_cd
        ELSE IF speed <= Fx(8, 1) THEN FMul(base_cd, Fx(9, 10))
        ELSE FMul(base_cd, FS + speed_factor)

\* 0.5 * air_density * drag_coefficient * wing_area * v**2, given v**2
DragForce(air_density, drag_coefficient, wing_area, v2) ==
    FMul(FMul(FMul(FMul(Fx(1, 2), air_density), wing_area), v2), drag_coefficient)

\* Lines 337-376 (speed is never HUGE here: see calculate_multirotor_power)
_calculate_wind_power_impact(speed, wind_data, air_density, drag_coefficient, wing_area, motor_efficiency, propeller_efficiency) ==
    IF wind_data = <<>> THEN 0
    ELSE
        LET wind_x == FromR(wind_data[1].wind_vector_x)
            wind_y == FromR(wind_data[1].wind_vector_y)
            wind_speed == FSqrt(FSq(wind_x) + FSq(wind_y))
            relative_speed == FSqrt(FSq(speed + wind_x) + FSq(wind_y))
            eff == FMul(motor_efficiency, propeller_efficiency)
            base_drag == DragForce(air_density, drag_coefficient, wing_area, FSq(speed))
            wind_drag == DragForce(air_density, drag_coefficient, wing_area, FSq(relative_speed))
            wind_drag_diff == IAbs(wind_drag - base_drag)
            wind_power == FDiv(FMul(wind_drag_diff, speed), eff)
            max_wind_power == FMul(FDiv(FMul(base_drag, speed), eff), Fx(5, 10))
        IN  IF wind_speed < Fx(1, 10) \/ speed < Fx(1, 10) THEN 0
            ELSE FMin(wind_power, max_wind_power)

\* The climb term, had it been signed (no test of the climb rate)
SignedClimbPower(mass, climb_rate, motor_efficiency) ==
    FDiv(FMul(FMul(mass, GRAVITY), climb_rate), motor_efficiency)

\* Lines 132-134, 171-173 and 202-204, in fixed point
ClimbPower(mass, climb_rate, motor_efficiency) ==
    IF climb_rate > 0
    THEN FDiv(FMul(FMul(mass, GRAVITY), climb_rate), motor_efficiency)
    ELSE 0

\* Lines 96-109: the airspeed the efficiency factor and the drag are based on;
\* HUGE when its square is out of the double range
EffectiveAirspeed(speed, wind_data, airspeed) ==
    IF ~IsNone(airspeed)
    THEN IF IsHuge(airspeed) THEN HUGE ELSE RMax(R(1, 10), airspeed)
    ELSE IF IsHuge(speed) THEN HUGE
    ELSE IF wind_data # <<>>
         THEN LET headwind_component == RNeg(wind_data[1].wind_vector_x)
              IN  RMax(R(1, 10), RSub(speed, headwind_component))
    ELSE speed

\* Lines 150-153: the value returned after an exception
MultirotorFallback(config) == RMul(config.mass, I(20))

\* Lines 111-148, once effective_airspeed is known and its square in range
MultirotorTotalPower(config, speed, climb_rate, air_density, wind_data, effective_airspeed) ==
    LET hover_motors_count == _calculate_hover_motors_count(config)
        base_hover_power == FieldOr(config.hover_power,
                                    estimate_hover_power(config, air_density, hover_motors_count))
        speed_efficiency_factor == _calculate_speed_efficiency_factor(effective_airspeed, config)
        hover_power == FMul(base_hover_power, speed_efficiency_factor)
        drag_coefficient == _calculate_dynamic_drag_coefficient(effective_airspeed, config)
        wing_area == FMax(Fx(1, 100), FieldOr(config.wing_area, Fx(5, 10)))
        motor_efficiency == FMax(Fx(1, 10), FieldOr(config.motor_efficiency, Fx(85, 100)))
        propeller_efficiency == FMax(Fx(1, 10), FieldOr(config.propeller_efficiency, Fx(75, 100)))
        drag_force == DragForce(air_density, drag_coefficient, wing_area, FSq(effective_airspeed))
        horizontal_power == FDiv(FMul(drag_force, effective_airspeed),
                                 FMul(motor_efficiency, propeller_efficiency))
        climb_power == ClimbPower(FromR(config.mass), climb_rate, motor_efficiency)
        \* a HUGE ground speed with a given airspeed: the wind term returns
        \* 0.0, without wind or after the OverflowError it catches itself
        wind_power == IF speed < 0 THEN 0
                      ELSE _calculate_wind_power_impact(speed, wind_data, air_density, drag_coefficient,
                                                        wing_area, motor_efficiency, propeller_efficiency)
    IN  IAbs(hover_power) + IAbs(horizontal_power) + IAbs(climb_power) + IAbs(wind_power)

\* Lines 87-153
calculate_multirotor_power(config, speed0, climb_rate, air_density0, wind_data, airspeed) ==
    LET speed == IF IsHuge(speed0) THEN HUGE ELSE RMax(I(0), speed0)
        air_density == FMax(Fx(1, 10), FromR(air_density0))
        effective_airspeed == EffectiveAirspeed(speed, wind_data, airspeed)
        total_power == MultirotorTotalPower(config, IF IsHuge(speed) THEN -1 ELSE FromR(speed),
                                            FromR(climb_rate), air_density, wind_data,
                                            FromR(effective_airspeed))
    IN  IF IsHuge(effective_airspeed)
        THEN Ok(MultirotorFallback(config))  \* effective_airspeed**2: OverflowError
        ELSE Ok(RMin(Watts(total_power), config.max_power))

\* Line 163: max(0.3, 1.0 - (speed / config.max_speed) * 0.7)
VtolHoverPowerFactor(config, speed) ==
    IF IsHuge(speed) THEN Fx(3, 10)
    ELSE FMax(Fx(3, 10), FS - FMul(FDiv(FromR(speed), FromR(config.max_speed)), Fx(7, 10)))

\* Lines 163-165: the power of the hover motors in cruise mode
VtolHoverPower(config, speed, air_density) ==
    FMul(estimate_hover_power(config, air_density, _calculate_hover_motors_count(config)),
         VtolHoverPowerFactor(config, speed))

\* Lines 161-183: cruise mode; None when an uncaught exception is raised
VtolCruisePower(config, speed, climb_rate, air_density, wind_data) ==
    LET hover_power == VtolHoverPower(config, speed, air_density)
        forward_thrust_power == FieldOr(config.forward_thrust_power,
                                        FMul(FromR(config.max_power), Fx(3, 10)))
        climb_power == ClimbPower(FromR(config.mass), FromR(climb_rate),
                                  FromR(config.motor_efficiency))
        wind_x == FromR(wind_data[1].wind_vector_x)
        wind_y == FromR(wind_data[1].wind_vector_y)
        effective_speed == FSqrt(FSq(FromR(speed) + wind_x) + FSq(wind_y))
        wind_factor == IF RPos(speed) THEN FDiv(effective_speed, FromR(speed)) ELSE FS
        wind_power == IF wind_data # <<>>
                      THEN FMul(FMul(forward_thrust_power, wind_factor - FS), Fx(5, 10))
                      ELSE 0
    IN  hover_power + forward_thrust_power + climb_power + wind_power

\* calculate_vtol_power, had it used the cruise formula at every speed
VtolCruiseOnly(config, speed, climb_rate, air_density, wind_data) ==
    IF wind_data # <<>> /\ IsHuge(speed) THEN Raise("OverflowError")
    ELSE
    Ok(RMin(Watts(VtolCruisePower(config, speed, climb_rate, FromR(air_density), wind_data)),
            config.max_power))

\* Lines 155-183.  Nothing is caught in cruise mode.
calculate_vtol_power(config, speed, climb_rate, air_density, wind_data) ==
    IF ~IsHuge(speed) /\ RLt(speed, I(5))
    THEN calculate_multirotor_power(config, speed, climb_rate, air_density, wind_data, NONE)
    ELSE IF RIsZero(config.max_speed) THEN Raise("ZeroDivisionError")
    ELSE IF RPos(climb_rate) /\ RIsZero(config.motor_efficiency) THEN Raise("ZeroDivisionError")
    ELSE IF wind_data # <<>> /\ IsHuge(speed) THEN Raise("OverflowError")
    ELSE Ok(RMin(Watts(VtolCruisePower(config, speed, climb_rate, FromR(air_density), wind_data)),
                 config.max_power))

\* Lines 188-199: power of level flight without wind
PlaneHorizontalPower(config, speed, air_density) ==
    LET drag_coefficient == FromR(config.drag_coefficient)
        wing_area == FromR(config.wing_area)
        lift_force == FMul(FromR(config.mass), GRAVITY)
        dynamic == FMul(FMul(FMul(Fx(1, 2), air_density), FSq(speed)), wing_area)
        induced_drag_coeff == FDiv(FSq(FDiv(lift_force, dynamic)), FMul(PI, Fx(8, 1)))
        total_drag_coeff == drag_coefficient + induced_drag_coeff
        drag_force == DragForce(air_density, total_drag_coeff, wing_area, FSq(speed))
    IN  FDiv(FMul(drag_force, speed),
             FMul(FromR(config.motor_efficiency), FromR(config.propeller_efficiency)))

\* Lines 201-215
PlaneTotalPower(config, speed, climb_rate, air_density, wind_data) ==
    LET horizontal_power == PlaneHorizontalPower(config, speed, air_density)
        climb_power == ClimbPower(FromR(config.mass), climb_rate, FromR(config.motor_efficiency))
        \* wind_vector_x * cos(0) + wind_vector_y * sin(0)
        headwind_component == FromR(wind_data[1].wind_vector_x)
        wind_factor == IF speed > 0
                       THEN FS + FMul(FDiv(headwind_component, speed), Fx(3, 10))
                       ELSE FS
        wind_power == IF wind_data # <<>>
                      THEN FMul(horizontal_power, wind_factor - FS)
                      ELSE 0
        total_power == horizontal_power + climb_power + wind_power
    IN  FMax(total_power, FMul(horizontal_power, Fx(5, 10)))

\* Lines 185-215.  Nothing is caught.
calculate_plane_power(config, speed, climb_rate, air_density, wind_data) ==
    IF IsHuge(speed) THEN Raise("OverflowError")
    ELSE IF RIsZero(speed) \/ RIsZero(config.wing_area) THEN Raise("ZeroDivisionError")
    ELSE IF RIsZero(config.motor_efficiency) \/ RIsZero(config.propeller_efficiency)
         THEN Raise("ZeroDivisionError")
    ELSE Ok(RMin(Watts(PlaneTotalPower(config, FromR(speed), FromR(climb_rate),
                                       FromR(air_density), wind_data)),
                 config.max_power))

\* ------------------------------------------------------------------------
\* Geodesy.  The waypoints of the model lie on the meridian of longitude 0 or
\* on the equator; latitude and longitude are given as the arc from the
\* origin in metres (angle * 6371000).  Between two points of one meridian,
\* or two points of the equator, the haversine term is sin^2 of half the arc
\* and the distance is the length of the arc between them.
\* ------------------------------------------------------------------------
Aligned(wp1, wp2) ==
    \/ wp1.longitude = wp2.longitude
    \/ wp1.latitude = 0 /\ wp2.latitude = 0

\* Lines 35-43 and 505-514: 6371000 * c
HorizontalDistance(wp1, wp2) ==
    IF wp1.longitude = wp2.longitude
    THEN I(IAbs(wp2.latitude - wp1.latitude))
    ELSE I(IAbs(wp2.longitude - wp1.longitude))

\* alt2 - alt1; HUGE (up or down) when one of them is
VerticalDistance(wp1, wp2) ==
    IF IsHuge(wp1.altitude) /\ IsHuge(wp2.altitude) THEN I(0)
    ELSE IF IsHuge(wp2.altitude) THEN HUGE
    ELSE IF IsHuge(wp1.altitude) THEN <<-1, 0>>
    ELSE RSub(wp2.altitude, wp1.altitude)

\* math.sqrt(horizontal**2 + vertical**2), to the centimetre
Distance3D(horizontal_distance, vertical_distance) ==
    RSqrt(RAdd(RSq(horizontal_distance), RSq(vertical_distance)), 100)

\* Lines 32-49; vertical_distance**2 raises OverflowError
calculate_distance(wp1, wp2) ==
    IF IsHuge(VerticalDistance(wp1, wp2)) THEN Raise("OverflowError")
    ELSE Ok(Distance3D(HorizontalDistance(wp1, wp2), VerticalDistance(wp1, wp2)))

\* Lines 576-584 and 665-676: forward azimuth in degrees; atan2(0, 0) = 0
FlightBearingDeg(wp1, wp2) ==
    IF wp1.longitude = wp2.longitude
    THEN IF wp2.latitude >= wp1.latitude THEN 0 ELSE 180
    ELSE IF wp2.longitude > wp1.longitude THEN 90 ELSE 270

\* math.sin and math.cos of the bearings above
SinDeg(b) == CASE b = 90 -> 1 [] b = 270 -> -1 [] OTHER -> 0
CosDeg(b) == CASE b = 0 -> 1 [] b = 180 -> -1 [] OTHER -> 0

\* Lines 586-594 and 687-693: -(wind . flight direction)
HeadwindComponent(wp1, wp2, w) ==
    LET b == FlightBearingDeg(wp1, wp2)
    IN  RNeg(RAdd(RMul(w.wind_vector_x, I(SinDeg(b))), RMul(w.wind_vector_y, I(CosDeg(b)))))

\* Line 697
CrosswindComponent(wp1, wp2, w) ==
    LET b == FlightBearingDeg(wp1, wp2)
    IN  RAdd(RMul(w.wind_vector_x, I(-CosDeg(b))), RMul(w.wind_vector_y, I(SinDeg(b))))

\* Lines 646-719
_calculate_wind_components_relative_to_flight(start_wp, end_wp, w) ==
    [speed_ms |-> w.wind_speed_ms,
     direction_deg |-> w.wind_direction_deg,
     headwind_ms |-> RRound2(HeadwindComponent(start_wp, end_wp, w)),
     crosswind_ms |-> RRound2(CrosswindComponent(start_wp, end_wp, w)),
     influence_factor |-> I(1),
     flight_bearing_deg |-> I(FlightBearingDeg(start_wp, end_wp))]

\* Lines 413-419 and 459-465: the record of a segment without wind (it has
\* no flight_bearing_deg key)
NoWindInfluence ==
    [speed_ms |-> I(0), direction_deg |-> I(0), headwind_ms |-> I(0),
     crosswind_ms |-> I(0), influence_factor |-> I(1), flight_bearing_deg |-> NONE]

WindInfluence(wp1, wp2, current_wind) ==
    IF current_wind # <<>>
    THEN _calculate_wind_components_relative_to_flight(wp1, wp2, current_wind[1])
    ELSE NoWindInfluence

\* ------------------------------------------------------------------------
\* Segment integrator
\* ------------------------------------------------------------------------

\* Lines 430 and 565: (alt1 + alt2) / 2
AverageAltitude(wp1, wp2) ==
    IF IsHuge(wp1.altitude) \/ IsHuge(wp2.altitude) THEN HUGE
    ELSE RDiv(RAdd(wp1.altitude, wp2.altitude), I(2))

\* Lines 528-531: the speed limit of the vertical axis
MaxVerticalSpeed(config, vertical_distance) ==
    IF RPos(vertical_distance) THEN config.max_climb_rate ELSE config.max_descent_speed

\* Lines 525 and 536
TimeHorizontal(config, horizontal_distance) ==
    LET max_horizontal_speed == RMin(config.cruise_speed, config.max_speed)
    IN  IF RPos(horizontal_distance) /\ RPos(max_horizontal_speed)
        THEN RDiv(horizontal_distance, max_horizontal_speed) ELSE I(0)

\* Lines 528-531 and 537
TimeVertical(config, vertical_distance) ==
    IF RPos(RAbs(vertical_distance)) /\ RPos(MaxVerticalSpeed(config, vertical_distance))
    THEN RDiv(RAbs(vertical_distance), MaxVerticalSpeed(config, vertical_distance))
    ELSE I(0)

\* The duration, had the horizontal axis alone set it
HorizontalFlightTime(config, horizontal_distance, vertical_distance) ==
    TimeHorizontal(config, horizontal_distance)

\* Lines 525-542: the duration of a rotorcraft segment
CopterFlightTime(config, horizontal_distance, vertical_distance) ==
    RMax(TimeHorizontal(config, horizontal_distance), TimeVertical(config, vertical_distance))

\* Line 627
LimitingAxis(config, horizontal_distance, vertical_distance) ==
    IF RLt(TimeHorizontal(config, horizontal_distance), TimeVertical(config, vertical_distance))
    THEN "vertical" ELSE "horizontal"

\* Lines 573-604: the speed handed to the power model
CopterAirspeed(start_wp, end_wp, wind_data, actual_horizontal_speed) ==
    IF wind_data # <<>>
    THEN RMax(R(1, 10), RSub(actual_horizontal_speed,
                             HeadwindComponent(start_wp, end_wp, wind_data[1])))
    ELSE actual_horizontal_speed

\* The energy of a segment, had the division been by the seconds of a minute
SegmentEnergyPerMinute(power, flight_time) == RDiv(RMul(power, flight_time), I(60))

\* Lines 447 and 614
SegmentEnergy(power, flight_time) == RDiv(RMul(power, flight_time), I(3600))

\* Lines 495-644.  path tells which return statement produced the result;
\* power_speed and power_climb_rate are the arguments of the call of
\* calculate_multirotor_power (None when it is not called).
calculate_copter_interpolated_segments(config, start_wp, end_wp, wind_data) ==
    LET horizontal_distance == HorizontalDistance(start_wp, end_wp)
        vertical_distance == VerticalDistance(start_wp, end_wp)
        total_3d_distance == Distance3D(horizontal_distance, vertical_distance)
        flight_time == CopterFlightTime(config, horizontal_distance, vertical_distance)
        actual_horizontal_speed == RDiv(horizontal_distance, flight_time)
        climb_rate == RDiv(vertical_distance, flight_time)
        avg_altitude == AverageAltitude(start_wp, end_wp)
        air_density == ToR(calculate_air_density(avg_altitude))
        airspeed == CopterAirspeed(start_wp, end_wp, wind_data, actual_horizontal_speed)
        power == calculate_multirotor_power(config, airspeed, climb_rate, air_density,
                                            wind_data, NONE).val
        energy == SegmentEnergy(power, flight_time)
    IN  IF IsHuge(vertical_distance)
        THEN \* vertical_distance**2 raises OverflowError: the except branch
             [path |-> "fallback", total_time |-> I(60),
              total_energy |-> RDiv(RMul(config.mass, I(20)), I(60)),
              total_distance |-> I(100), power_speed |-> NONE, power_climb_rate |-> NONE,
              segments |-> <<>>]
        ELSE IF RIsZero(flight_time)
        THEN [path |-> "no_movement", total_time |-> I(0), total_energy |-> I(0),
              total_distance |-> I(0), power_speed |-> NONE, power_climb_rate |-> NONE,
              segments |-> <<>>]
        ELSE [path |-> "linear_flight", total_time |-> flight_time, total_energy |-> energy,
              total_distance |-> total_3d_distance,
              power_speed |-> airspeed, power_climb_rate |-> climb_rate,
              segments |-> <<[type |-> "linear_flight",
                              horizontal_speed |-> actual_horizontal_speed,
                              vertical_speed |-> RDiv(RAbs(vertical_distance), flight_time),
                              climb_rate |-> climb_rate,
                              duration |-> flight_time,
                              distance |-> total_3d_distance,
                              limiting_axis |-> LimitingAxis(config, horizontal_distance,
                                                             vertical_distance)]>>]

\* Lines 411-412
AverageOf(total, total_time) == IF RPos(total_time) THEN RDiv(total, total_time) ELSE I(0)

\* Lines 399-420: the FlightSegment of a rotorcraft
MultirotorFlightSegment(i, wp1, wp2, current_wind, interpolation_result) ==
        [segment_id |-> i, start_waypoint |-> wp1, end_waypoint |-> wp2,
         distance_m |-> interpolation_result.total_distance,
         duration_s |-> interpolation_result.total_time,
         energy_wh |-> interpolation_result.total_energy,
         average_speed_ms |-> AverageOf(interpolation_result.total_distance,
                                        interpolation_result.total_time),
         average_power_w |-> AverageOf(RMul(interpolation_result.total_energy, I(3600)),
                                       interpolation_result.total_time),
         wind_influence |-> WindInfluence(wp1, wp2, current_wind)]

\* Line 434
TraditionalSpeed(config, distance) ==
    IF RLt(I(100), distance) THEN config.cruise_speed
    ELSE RMul(config.cruise_speed, R(7, 10))

\* Line 435; ZeroDivisionError when the speed is 0 on a segment with a length
TraditionalClimbRate(wp1, wp2, distance, speed) ==
    IF RPos(distance)
    THEN IF RIsZero(speed) THEN Raise("ZeroDivisionError")
         ELSE Ok(RDiv(RSub(wp2.altitude, wp1.altitude), RDiv(distance, speed)))
    ELSE Ok(I(0))

\* Lines 438-443
DispatchPower(config, speed, climb_rate, air_density, current_wind) ==
    IF config.vehicle_type = "vtol"
    THEN calculate_vtol_power(config, speed, climb_rate, air_density, current_wind)
    ELSE IF config.vehicle_type = "plane"
    THEN calculate_plane_power(config, speed, climb_rate, air_density, current_wind)
    ELSE Raise("ValueError")

\* The flight time, had it been kept to at least one second
AtLeastOneSecond(distance, speed) ==
    IF RPos(speed) THEN RMax(I(1), RDiv(distance, speed)) ELSE I(0)

\* Line 446
TraditionalFlightTime(distance, speed) == IF RPos(speed) THEN RDiv(distance, speed) ELSE I(0)

\* Lines 445-466: the FlightSegment of a VTOL or plane once the power model
\* has answered, or its exception (seg is meaningful when exc = "none")
SegmentWithPower(i, wp1, wp2, current_wind, distance, speed, climb_rate, pw) ==
    IF ~IsOk(pw) THEN [exc |-> pw.exc, power_speed |-> speed, power_climb_rate |-> climb_rate]
    ELSE [exc |-> "none", power_speed |-> speed, power_climb_rate |-> climb_rate,
          seg |-> [segment_id |-> i, start_waypoint |-> wp1, end_waypoint |-> wp2,
                   distance_m |-> distance,
                   duration_s |-> TraditionalFlightTime(distance, speed),
                   energy_wh |-> SegmentEnergy(pw.val, TraditionalFlightTime(distance, speed)),
                   average_speed_ms |-> speed,
                   average_power_w |-> pw.val,
                   wind_influence |-> WindInfluence(wp1, wp2, current_wind)]]

\* Lines 435-443, given the outcome of the climb-rate division
SegmentWithClimbRate(config, i, wp1, wp2, current_wind, air_density, distance, speed, climb) ==
    IF ~IsOk(climb) THEN [exc |-> climb.exc, power_speed |-> NONE, power_climb_rate |-> NONE]
    ELSE SegmentWithPower(i, wp1, wp2, current_wind, distance, speed, climb.val,
                          DispatchPower(config, speed, climb.val, air_density, current_wind))

\* Lines 430-435, given distance and speed
SegmentWithSpeed(config, i, wp1, wp2, current_wind, distance, speed) ==
    SegmentWithClimbRate(config, i, wp1, wp2, current_wind,
                         ToR(calculate_air_density(AverageAltitude(wp1, wp2))),
                         distance, speed, TraditionalClimbRate(wp1, wp2, distance, speed))

\* Lines 429-434, given the outcome of calculate_distance
SegmentWithDistance(config, i, wp1, wp2, current_wind, dist) ==
    IF ~IsOk(dist) THEN [exc |-> dist.exc, power_speed |-> NONE, power_climb_rate |-> NONE]
    ELSE SegmentWithSpeed(config, i, wp1, wp2, current_wind, dist.val,
                          TraditionalSpeed(config, dist.val))

\* Lines 428-466: the FlightSegment of a VTOL or plane, or the exception
\* raised on the way
TraditionalFlightSegment(config, i, wp1, wp2, current_wind) ==
    SegmentWithDistance(config, i, wp1, wp2, current_wind, calculate_distance(wp1, wp2))

\* The wind selection, had it always taken the last sample
LastWind(wind_list, i) ==
    IF wind_list # <<>> THEN <<wind_list[Len(wind_list)]>> ELSE <<>>

\* Line 394: wind_data[min(i, len(wind_data) - 1)] if wind_data else None
CurrentWind(wind_list, i) ==
    IF wind_list # <<>>
    THEN <<wind_list[(IF i < Len(wind_list) - 1 THEN i ELSE Len(wind_list) - 1) + 1]>>
    ELSE <<>>

\* The feasibility test, had it accepted a mission that uses the whole battery
FeasibleAtCapacity(total_energy, battery_capacity_wh) == RLe(total_energy, battery_capacity_wh)

\* Line 487
IsFeasible(total_energy, battery_capacity_wh) == RLt(total_energy, battery_capacity_wh)

\* Lines 474-493
MissionResult(config, total_energy, total_distance, total_time, segs) ==
    LET battery_capacity_wh == RDiv(RMul(config.battery_capacity, config.battery_voltage), I(1000))
        battery_usage_percent == RMul(RDiv(total_energy, battery_capacity_wh), I(100))
    IN  [total_energy_wh |-> total_energy,
         total_distance_m |-> total_distance,
         total_time_s |-> total_time,
         battery_usage_percent |-> battery_usage_percent,
         flight_segments |-> segs,
         summary |-> [battery_capacity_wh |-> battery_capacity_wh,
                      remaining_energy_wh |-> RSub(battery_capacity_wh, total_energy),
                      remaining_battery_percent |-> RSub(I(100), battery_usage_percent),
                      is_feasible |-> IsFeasible(total_energy, battery_capacity_wh),
                      flight_time_minutes |-> RDiv(total_time, I(60)),
                      energy_per_km |-> IF RPos(total_distance)
                                        THEN RDiv(total_energy, RDiv(total_distance, I(1000)))
                                        ELSE I(0),
                      average_speed_ms |-> IF RPos(total_time)
                                           THEN RDiv(total_distance, total_time) ELSE I(0),
                      max_range_estimate_km |->
                          IF RPos(total_energy)
                          THEN RMul(RDiv(battery_capacity_wh, total_energy),
                                    RDiv(total_distance, I(1000)))
                          ELSE I(0)]]

\* ------------------------------------------------------------------------
\* GlauertAnalyzer (src/backend/services/glauert_analyzer.py), in the fixed
\* point of the power formulas.  Speeds are whole numbers of m/s.
\* ------------------------------------------------------------------------

\* Lines 24-44 at altitude 0: 101325 / (287 * 288.15)
AnalyzerSeaLevelDensity == Fx(12252, 10000)

\* Lines 46-61
get_rotor_count(config) ==
    LET base_count ==
            CASE config.frame_type = "tri" -> 3
              [] config.frame_type = "quad" -> 4
              [] config.frame_type = "hexa" -> 6
              [] config.frame_type = "octo" -> 8
              [] OTHER -> 4
    IN  IF config.motor_config = "coaxial" THEN base_count * 2 ELSE base_count

\* Lines 85-91, given the thrust of one rotor, 2 * air_density * disk_area
\* and the speed
ForwardInducedVelocity(thrust_per_rotor, disk_loading, speed) ==
    LET hover_induced_velocity == FSqrt(FDiv(thrust_per_rotor, disk_loading))
    IN  IF speed > Fx(1, 10)
        THEN FDiv(hover_induced_velocity, FSqrt(FSq(speed) + FSq(hover_induced_velocity)))
        ELSE hover_induced_velocity

\* Lines 93-99
TotalInducedPower(config, thrust_per_rotor, forward_induced_velocity) ==
    FDiv(FMul(thrust_per_rotor, forward_induced_velocity) * get_rotor_count(config),
         IF config.motor_config = "coaxial" THEN Fx(87, 100) ELSE FS)

\* Lines 101-108; 0.012 * 200**3 * 0.1 / 8 = 1200
TotalProfilePower(config, air_density, disk_area) ==
    FMul(air_density, disk_area) * 1200 * get_rotor_count(config)

\* Lines 110-113
ParasiticPower(config, air_density, rotor_diameter, speed) ==
    IF speed > 0
    THEN FMul(FMul(FMul(FMul(FMul(FSq(speed), speed), air_density), Fx(1, 2)),
                   FieldOr(config.drag_coefficient, Fx(3, 100))),
              FMul(FSq(rotor_diameter), PI) \div 4)
    ELSE 0

\* Lines 85-129 with climb_rate = 0: the electrical power
GlauertElectricalPower(config, speed, air_density, rotor_diameter, disk_area, thrust_per_rotor) ==
    FDiv(TotalInducedPower(config, thrust_per_rotor,
                           ForwardInducedVelocity(thrust_per_rotor,
                                                  FMul(2 * air_density, disk_area), speed))
             + TotalProfilePower(config, air_density, disk_area)
             + ParasiticPower(config, air_density, rotor_diameter, speed),
         FMul(FieldOr(config.motor_efficiency, Fx(85, 100)),
              FieldOr(config.propeller_efficiency, Fx(75, 100))))

\* Lines 63-148 with climb_rate = 0: result['electrical_power']
calculate_glauert_power(config, speed, air_density) ==
    GlauertElectricalPower(config, speed, air_density,
                           FieldOr(config.rotor_diameter, Fx(3, 10)),
                           FMul(PI, FSq(FieldOr(config.rotor_diameter, Fx(3, 10)) \div 2)),
                           FMul(FromR(config.mass), GRAVITY) \div get_rotor_count(config))

\* Lines 150-181
calculate_current_backend_efficiency_factor(config, speed) ==
    LET mass == FromR(config.mass)
        sweet_spot_min == FMax(Fx(2, 1), FMul(mass, Fx(3, 10)))
        sweet_spot_max == FMax(Fx(4, 1), FMul(mass, Fx(5, 10)))
        sweet_spot_center == (sweet_spot_min + sweet_spot_max) \div 2
        normalized_pos == FDiv(speed - sweet_spot_center, sweet_spot_max - sweet_spot_center)
        efficiency_gain == FMul(Fx(35, 100), FS - FSq(normalized_pos))
        excess_speed == speed - sweet_spot_max
        penalty == FMin(Fx(4, 10), FMul(excess_speed, Fx(3, 100)))
    IN  IF speed = 0 THEN FS
        ELSE IF speed <= sweet_spot_min
             THEN FS - FMul(FDiv(speed, sweet_spot_min), Fx(25, 100))
        ELSE IF speed <= sweet_spot_max
             THEN Fx(75, 100) - efficiency_gain
        ELSE Fx(75, 100) + penalty

\* Line 193: config.hover_power or (config.mass * 15.0)
BaseHoverPower(config) == FieldOr(config.hover_power, FMul(FromR(config.mass), Fx(15, 1)))

\* Lines 218-239: one entry of comparison_data
ComparisonEntry(config, speed, air_density) ==
    [speed |-> speed,
     current_backend_power |->
         FMul(BaseHoverPower(config),
              calculate_current_backend_efficiency_factor(config, Fx(speed, 1))),
     glauert_power |-> calculate_glauert_power(config, Fx(speed, 1), air_density)]

\* Lines 259-260: 80% of the battery energy in Wh
UsableEnergy(config) ==
    FMul(FromR(RDiv(RMul(config.battery_capacity, config.battery_voltage), I(1000))),
         Fx(8, 10))

\* The index of the cruise entry, had it been the position of the speed 12
RECURSIVE IndexOfTwelve(_)
IndexOfTwelve(range) ==
    IF range = <<>> THEN 0
    ELSE IF 12 \in {range[k] : k \in 1..(Len(range) - 1)}
         THEN IndexOfTwelve(SubSeq(range, 1, Len(range) - 1))
    ELSE IF range[Len(range)] = 12 THEN Len(range) - 1
    ELSE Len(range) \div 2

\* Line 263: cruise_idx (counted from 0)
CruiseIdx(range) ==
    IF 12 \in {range[k] : k \in 1..Len(range)} THEN 12 ELSE Len(range) \div 2

\* Lines 268-273: the range in km at a power and a speed
RangeKm(usable_energy, power, speed) ==
    FMul(FMul(FDiv(usable_energy, power), Fx(speed, 1)), Fx(36, 10))

\* Lines 264-277, given the entry at cruise_idx; ZeroDivisionError at a
\* cruise speed of 0
RangeAnalysis(config, entry) ==
    LET current_backend_range ==
            RangeKm(UsableEnergy(config), entry.current_backend_power, entry.speed)
        glauert_range == RangeKm(UsableEnergy(config), entry.glauert_power, entry.speed)
    IN  IF current_backend_range = 0 THEN Raise("ZeroDivisionError")
        ELSE Ok([current_backend_range |-> current_backend_range,
                 glauert_range |-> glauert_range,
                 difference_percent |->
                     FDiv(glauert_range - current_backend_range, current_backend_range) * 100])

\* Lines 208-212: range_analysis as it is initialised
NoRangeAnalysis ==
    Ok([current_backend_range |-> 0, glauert_range |-> 0, difference_percent |-> 0])

\* Lines 183-279, given comparison_data and cruise_idx
CompareResult(config, comparison_data, cruise_idx) ==
    LET range_analysis ==
            IF cruise_idx < Len(comparison_data)
            THEN RangeAnalysis(config, comparison_data[cruise_idx + 1])
            ELSE NoRangeAnalysis
    IN  IF IsOk(range_analysis)
        THEN [exc |-> "none", comparison_data |-> comparison_data,
              range_analysis |-> range_analysis.val]
        ELSE [exc |-> range_analysis.exc, comparison_data |-> comparison_data,
              range_analysis |-> NoRangeAnalysis.val]

\* Lines 183-279 at altitude 0
compare_methods(config, range) ==
    CompareResult(config,
                  [k \in 1..Len(range) |->
                      ComparisonEntry(config, range[k], AnalyzerSeaLevelDensity)],
                  CruiseIdx(range))

\* ------------------------------------------------------------------------
\* Inputs of the model
\* ------------------------------------------------------------------------

\* The longest waypoint list and the longest wind list
MaxWaypoints == 3
MaxWind == 2

\* VehicleConfig with the defaults of src/backend/models/vehicles.py
DefaultConfig ==
    [vehicle_type |-> "multirotor", mass |-> R(5, 2), max_power |-> I(1500),
     hover_power |-> I(800), forward_thrust_power |-> NONE,
     cruise_speed |-> I(15), max_speed |-> I(20),
     max_climb_rate |-> I(10), max_descent_speed |-> I(5),
     battery_capacity |-> I(10000), battery_voltage |-> I(20),
     frame_type |-> "quad", motor_config |-> "single", vtol_config |-> "none",
     hover_motors_count |-> <<4>>, total_motors_count |-> <<4>>,
     drag_coefficient |-> R(3, 100), wing_area |-> R(1, 2), rotor_diameter |-> R(3, 10),
     motor_efficiency |-> R(85, 100), propeller_efficiency |-> R(75, 100)]

MultirotorConfig == DefaultConfig

\* cruise 5 m/s: cruise mode on long segments, hover mode (3.5 m/s) on short ones
VtolConfig ==
    [DefaultConfig EXCEPT !.vehicle_type = "vtol", !.mass = I(5), !.max_power = I(2000),
                          !.hover_power = I(1000), !.cruise_speed = I(5), !.max_speed = I(25)]

PlaneConfig ==
    [DefaultConfig EXCEPT !.vehicle_type = "plane", !.mass = I(3), !.max_power = I(1200),
                          !.hover_power = NONE, !.cruise_speed = I(20), !.max_speed = I(30),
                          !.wing_area = R(6, 10)]

\* a vehicle_type outside the VehicleType enumeration
UnknownTypeConfig == [DefaultConfig EXCEPT !.vehicle_type = "quadcopter"]

\* a rotorcraft limited to 900 W with a battery of 100 mAh at 20 V (2 Wh):
\* the 120 m segments take 8 s at 900 W, which is 2 Wh
SmallBatteryConfig == [DefaultConfig EXCEPT !.max_power = I(900), !.battery_capacity = I(100)]

Configs == {MultirotorConfig, VtolConfig, PlaneConfig, UnknownTypeConfig, SmallBatteryConfig}

\* Waypoint(latitude, longitude, altitude)
Waypoint(lat, lon, alt) == [latitude |-> lat, longitude |-> lon, altitude |-> alt]

Home == Waypoint(0, 0, I(0))
Above == Waypoint(0, 0, I(50))
North == Waypoint(120, 0, I(0))
East == Waypoint(0, 120, I(0))
\* an altitude whose square is out of the double range
Sky == Waypoint(0, 0, HUGE)

Points == {Home, Above, North, East, Sky}

\* WindData as built by create_manual_wind_data (wind_service.py lines 191-221)
\* Calm: no wind.  Breeze: 5 m/s, vector 3 m/s east and 4 m/s north
Calm == [wind_speed_ms |-> I(0), wind_direction_deg |-> I(0),
         wind_vector_x |-> I(0), wind_vector_y |-> I(0)]
Breeze == [wind_speed_ms |-> I(5), wind_direction_deg |-> R(3687, 100),
           wind_vector_x |-> I(3), wind_vector_y |-> I(4)]

WindSamples == {Calm, Breeze}

SeqsUpTo(S, n) == UNION {[1..k -> S] : k \in 0..n}

\* Missions start at Home; consecutive waypoints share a meridian or the equator
WaypointLists ==
    {w \in SeqsUpTo(Points, MaxWaypoints) :
        /\ Len(w) > 0 => w[1] = Home
        /\ \A k \in 1..(Len(w) - 1) : Aligned(w[k], w[k + 1])}

WindLists == SeqsUpTo(WindSamples, MaxWind)

\* ------------------------------------------------------------------------
\* calculate_energy_consumption as a state machine: one step per loop
\* iteration.  power_calls and wind_used record, per iteration, the
\* arguments handed to the power model and the wind sample selected.
\* ------------------------------------------------------------------------

\* calls counts the invocations made on the EnergyCalculator instance, and
\* first_call records the inputs and the outcome of the first of them.
VARIABLES config, waypoints, wind_data, pc, i, segments,
          total_energy, total_time, total_distance, result, error,
          power_calls, wind_used, power_args, power_result, calls, first_call,
          speed_range, analysis,
          user_groups, simulation_sessions, flight_segments, in_flight, response

vars == <<config, waypoints, wind_data, pc, i, segments,
          total_energy, total_time, total_distance, result, error,
          power_calls, wind_used, power_args, power_result, calls, first_call,
          speed_range, analysis,
          user_groups, simulation_sessions, flight_segments, in_flight, response>>

\* The arguments and the answer of a call of the GlauertAnalyzer
analyzer_vars == <<speed_range, analysis>>

\* The tables of the database, the requests between two commits, and the last
\* answer of an endpoint
service_vars == <<user_groups, simulation_sessions, flight_segments, in_flight, response>>

\* No analyzer call is under way
AnalyzerIdle == speed_range = <<>> /\ analysis = <<>>

\* An empty database and no request
ServiceIdle ==
    /\ user_groups = <<>>
    /\ simulation_sessions = <<>>
    /\ flight_segments = <<>>
    /\ in_flight = {}
    /\ response = <<>>

mission_vars == <<waypoints, pc, i, segments, total_energy, total_time,
                  total_distance, result, error, power_calls, wind_used, calls, first_call>>

NoPowerArgs == [speed |-> NONE, climb_rate |-> NONE, air_density |-> NONE]

Init ==
    /\ config \in Configs
    /\ waypoints \in WaypointLists
    /\ wind_data \in WindLists
    /\ pc = "start"
    /\ i = 0
    /\ segments = <<>>
    /\ total_energy = I(0)
    /\ total_time = I(0)
    /\ total_distance = I(0)
    /\ result = <<>>
    /\ error = "none"
    /\ power_calls = <<>>
    /\ wind_used = <<>>
    /\ power_args = NoPowerArgs
    /\ power_result = <<>>
    /\ calls = 1
    /\ first_call = <<>>
    /\ AnalyzerIdle
    /\ ServiceIdle

\* The length check, had it accepted a single waypoint
NoWaypoints(wps) == Len(wps) < 1

\* Line 381
TooFewWaypoints(wps) == Len(wps) < 2

\* Lines 381-382
RaiseTooFewWaypoints ==
    /\ pc = "start"
    /\ TooFewWaypoints(waypoints)
    /\ pc' = "raised"
    /\ error' = "ValueError"
    /\ UNCHANGED <<calls, first_call, config, waypoints, wind_data, i, segments, total_energy, total_time,
                   total_distance, result, power_calls, wind_used, power_args, power_result>>
    /\ UNCHANGED <<analyzer_vars, service_vars>>

\* The energy total, had it been kept across calls instead of being a local
CarriedEnergy == total_energy

\* Line 385
InitialEnergy == I(0)

\* Lines 384-389
BeginMission ==
    /\ pc = "start"
    /\ ~TooFewWaypoints(waypoints)
    /\ pc' = "loop"
    /\ i' = 0
    /\ segments' = <<>>
    /\ total_energy' = InitialEnergy
    /\ total_time' = I(0)
    /\ total_distance' = I(0)
    /\ UNCHANGED <<calls, first_call, config, waypoints, wind_data, result, error, power_calls, wind_used,
                   power_args, power_result>>
    /\ UNCHANGED <<analyzer_vars, service_vars>>

\* The running total, had it been overwritten instead of added to
Overwrite(total, value) == value

\* Lines 422-424 and 468-470
Accumulate(total, value) == RAdd(total, value)

\* Lines 422-425 and 468-471
AppendSegment(segment) ==
    /\ segments' = Append(segments, segment)
    /\ total_energy' = Accumulate(total_energy, segment.energy_wh)
    /\ total_time' = Accumulate(total_time, segment.duration_s)
    /\ total_distance' = Accumulate(total_distance, segment.distance_m)
    /\ i' = i + 1

\* Lines 399-425, given the wind sample and the integrator's result
MultirotorIteration(wp1, wp2, current_wind, interpolation_result) ==
    /\ AppendSegment(MultirotorFlightSegment(i, wp1, wp2, current_wind, interpolation_result))
    /\ power_calls' = Append(power_calls, [path |-> interpolation_result.path,
                                           speed |-> interpolation_result.power_speed,
                                           climb_rate |-> interpolation_result.power_climb_rate,
                                           segments |-> interpolation_result.segments])
    /\ wind_used' = Append(wind_used, current_wind)

\* Lines 390-425: one iteration for a multirotor
MultirotorSegment ==
    /\ pc = "loop"
    /\ i < Len(waypoints) - 1
    /\ config.vehicle_type = "multirotor"
    /\ MultirotorIteration(waypoints[i + 1], waypoints[i + 2], CurrentWind(wind_data, i),
                           calculate_copter_interpolated_segments(
                               config, waypoints[i + 1], waypoints[i + 2],
                               CurrentWind(wind_data, i)))
    /\ UNCHANGED <<calls, first_call, config, waypoints, wind_data, pc, result, error, power_args, power_result>>
    /\ UNCHANGED <<analyzer_vars, service_vars>>

\* Lines 428-471, given the wind sample and the segment or the exception
TraditionalIteration(current_wind, out) ==
    /\ wind_used' = Append(wind_used, current_wind)
    /\ power_calls' = Append(power_calls, [path |-> "traditional", speed |-> out.power_speed,
                                           climb_rate |-> out.power_climb_rate,
                                           segments |-> <<>>])
    /\ IF out.exc = "none"
       THEN /\ AppendSegment(out.seg)
            /\ UNCHANGED <<pc, error>>
       ELSE /\ pc' = "raised"
            /\ error' = out.exc
            /\ UNCHANGED <<segments, total_energy, total_time, total_distance, i>>

\* Lines 390-394 and 427-471: one iteration for any other vehicle type
TraditionalSegment ==
    /\ pc = "loop"
    /\ i < Len(waypoints) - 1
    /\ config.vehicle_type # "multirotor"
    /\ TraditionalIteration(CurrentWind(wind_data, i),
                            TraditionalFlightSegment(config, i, waypoints[i + 1],
                                                     waypoints[i + 2], CurrentWind(wind_data, i)))
    /\ UNCHANGED <<calls, first_call, config, waypoints, wind_data, result, power_args, power_result>>
    /\ UNCHANGED <<analyzer_vars, service_vars>>

\* Lines 473-493
ReturnResult ==
    /\ pc = "loop"
    /\ i >= Len(waypoints) - 1
    /\ pc' = "returned"
    /\ result' = <<MissionResult(config, total_energy, total_distance, total_time, segments)>>
    /\ UNCHANGED <<calls, first_call, config, waypoints, wind_data, i, segments, total_energy, total_time,
                   total_distance, error, power_calls, wind_used, power_args, power_result>>
    /\ UNCHANGED <<analyzer_vars, service_vars>>

Next ==
    \/ RaiseTooFewWaypoints
    \/ BeginMission
    \/ MultirotorSegment
    \/ TraditionalSegment
    \/ ReturnResult

Spec == Init /\ [][Next]_vars

\* ------------------------------------------------------------------------
\* Several invocations on one EnergyCalculator instance.  The instance holds
\* AIR_DENSITY and GRAVITY, set by __init__ (lines 28-30) and assigned nowhere
\* else; everything else is local to a call.  The variables of the locals keep
\* the values of the call before until the new call assigns them.
\* ------------------------------------------------------------------------

\* The most invocations on one instance
MaxCalls == 3

\* The missions of these invocations: at most one segment, at most one sample
SessionConfigs == {MultirotorConfig, PlaneConfig}
SessionWaypointLists == {w \in WaypointLists : Len(w) <= 2}
SessionWindLists == {w \in WindLists : Len(w) <= 1}

\* What an invocation hands back: the result, or the exception
Outcome == [pc |-> pc, result |-> result, error |-> error]

SessionInit ==
    /\ Init
    /\ config \in SessionConfigs
    /\ waypoints \in SessionWaypointLists
    /\ wind_data \in SessionWindLists

\* Line 378: the next invocation on the same instance
NextCall ==
    /\ pc \in {"returned", "raised"}
    /\ calls < MaxCalls
    /\ calls' = calls + 1
    /\ first_call' = IF first_call = <<>>
                     THEN <<[config |-> config, waypoints |-> waypoints,
                             wind_data |-> wind_data, outcome |-> Outcome]>>
                     ELSE first_call
    /\ config' \in SessionConfigs
    /\ waypoints' \in SessionWaypointLists
    /\ wind_data' \in SessionWindLists
    /\ pc' = "start"
    /\ result' = <<>>
    /\ error' = "none"
    /\ power_calls' = <<>>
    /\ wind_used' = <<>>
    /\ UNCHANGED <<i, segments, total_energy, total_time, total_distance,
                   power_args, power_result>>
    /\ UNCHANGED <<analyzer_vars, service_vars>>

SessionNext ==
    \/ RaiseTooFewWaypoints
    \/ BeginMission
    \/ MultirotorSegment
    \/ TraditionalSegment
    \/ ReturnResult
    \/ NextCall

SessionSpec == SessionInit /\ [][SessionNext]_vars

\* ------------------------------------------------------------------------
\* The three power models called on their own
\* ------------------------------------------------------------------------

\* 2.5 kg with a power limit below 20 W per kg
UnderpoweredConfig == [DefaultConfig EXCEPT !.max_power = I(40)]

\* no hover_power given: estimated from the rotor disc
EstimatedHoverConfig == [DefaultConfig EXCEPT !.hover_power = NONE, !.frame_type = "hexa"]

PowerConfigs == {MultirotorConfig, VtolConfig, PlaneConfig, UnderpoweredConfig,
                 EstimatedHoverConfig}

\* speed arguments, with one whose square is out of the double range
PowerSpeeds == {I(0), I(3), I(5), I(6), I(10), I(12), I(25), HUGE}
PowerClimbRates == {I(-3), I(0), I(4)}
\* sea level, 1000 m, and a density below the floor of the rotorcraft model
PowerAirDensities == {ToR(calculate_air_density(I(0))), ToR(calculate_air_density(I(1000))),
                      R(1, 20)}
PowerWinds == {<<>>, <<Calm>>, <<Breeze>>}

PowerInit ==
    /\ config \in PowerConfigs
    /\ wind_data \in PowerWinds
    /\ power_args \in [speed : PowerSpeeds, climb_rate : PowerClimbRates,
                        air_density : PowerAirDensities]
    /\ power_result = <<>>
    /\ waypoints = <<>>
    /\ pc = "power"
    /\ i = 0
    /\ segments = <<>>
    /\ total_energy = I(0)
    /\ total_time = I(0)
    /\ total_distance = I(0)
    /\ result = <<>>
    /\ error = "none"
    /\ power_calls = <<>>
    /\ wind_used = <<>>
    /\ calls = 1
    /\ first_call = <<>>
    /\ AnalyzerIdle
    /\ ServiceIdle

CallMultirotorPower ==
    /\ pc = "power"
    /\ power_result = <<>>
    /\ power_result' = <<[model |-> "multirotor",
                          out |-> calculate_multirotor_power(config, power_args.speed,
                                      power_args.climb_rate, power_args.air_density,
                                      wind_data, NONE)]>>
    /\ UNCHANGED <<config, wind_data, power_args, mission_vars>>
    /\ UNCHANGED <<analyzer_vars, service_vars>>

CallVtolPower ==
    /\ pc = "power"
    /\ power_result = <<>>
    /\ power_result' = <<[model |-> "vtol",
                          out |-> calculate_vtol_power(config, power_args.speed,
                                      power_args.climb_rate, power_args.air_density,
                                      wind_data)]>>
    /\ UNCHANGED <<config, wind_data, power_args, mission_vars>>
    /\ UNCHANGED <<analyzer_vars, service_vars>>

CallPlanePower ==
    /\ pc = "power"
    /\ power_result = <<>>
    /\ power_result' = <<[model |-> "plane",
                          out |-> calculate_plane_power(config, power_args.speed,
                                      power_args.climb_rate, power_args.air_density,
                                      wind_data)]>>
    /\ UNCHANGED <<config, wind_data, power_args, mission_vars>>
    /\ UNCHANGED <<analyzer_vars, service_vars>>

PowerNext ==
    \/ CallMultirotorPower
    \/ CallVtolPower
    \/ CallPlanePower

PowerSpec == PowerInit /\ [][PowerNext]_vars

\* ------------------------------------------------------------------------
\* Missions flown with the wind samples of create_manual_wind_data
\* ------------------------------------------------------------------------

\* wind_service.py lines 191-221, for a direction that is a multiple of 90
\* degrees (the sine and cosine of which round to -1, 0 or 1)
create_manual_wind_data(wind_speed_ms, wind_direction_deg) ==
    [wind_speed_ms |-> RRound2(wind_speed_ms),
     wind_direction_deg |-> I(wind_direction_deg),
     wind_vector_x |-> RRound2(RMul(wind_speed_ms, I(SinDeg(wind_direction_deg)))),
     wind_vector_y |-> RRound2(RMul(wind_speed_ms, I(CosDeg(wind_direction_deg))))]

ManualWindSpeeds == {I(5), I(10)}
ManualWindDirections == {0, 90, 180, 270}

ManualWinds ==
    {create_manual_wind_data(s, d) : s \in ManualWindSpeeds, d \in ManualWindDirections}

\* no wind list, or the same manual sample for every segment
ManualWindLists == {<<>>} \cup {<<w>> : w \in ManualWinds}

WindConfigs == {MultirotorConfig, VtolConfig, PlaneConfig}

WindInit ==
    /\ config \in WindConfigs
    /\ waypoints \in WaypointLists
    /\ wind_data \in ManualWindLists
    /\ pc = "start"
    /\ i = 0
    /\ segments = <<>>
    /\ total_energy = I(0)
    /\ total_time = I(0)
    /\ total_distance = I(0)
    /\ result = <<>>
    /\ error = "none"
    /\ power_calls = <<>>
    /\ wind_used = <<>>
    /\ power_args = NoPowerArgs
    /\ power_result = <<>>
    /\ calls = 1
    /\ first_call = <<>>
    /\ AnalyzerIdle
    /\ ServiceIdle

WindSpec == WindInit /\ [][Next]_vars

\* ------------------------------------------------------------------------
\* VehicleConfig (src/backend/models/vehicles.py) as an object: constructed,
\* then assigned to.  An Optional enum or int field holds "none" or <<>> for
\* None.  The model class sets no validate_assignment, so an assignment is a
\* plain attribute store and the validator runs at construction only.
\* ------------------------------------------------------------------------
FrameTypes == {"tri", "quad", "hexa", "octo"}
MotorConfigurations == {"single", "coaxial"}
VTOLConfigurations == {"quad_plane", "tilt_rotor"}

\* Lines 70-75: base_motors.get(frame_type, 4)
BaseMotors(frame_type) ==
    CASE frame_type = "tri" -> 3
      [] frame_type = "quad" -> 4
      [] frame_type = "hexa" -> 6
      [] frame_type = "octo" -> 8
      [] OTHER -> 4

\* Lines 77-81
HoverMotorsOf(self) ==
    IF self.motor_config = "coaxial" THEN BaseMotors(self.frame_type) * 2
    ELSE BaseMotors(self.frame_type)

\* Lines 65-90: the validator run after the fields are set by the constructor
calculate_motor_counts(self) ==
    IF self.frame_type # "none" /\ self.motor_config # "none"
    THEN [self EXCEPT !.hover_motors_count = <<HoverMotorsOf(self)>>,
                      !.total_motors_count =
                          <<HoverMotorsOf(self)
                            + (IF self.vtol_config = "quad_plane" THEN 1 ELSE 0)>>]
    ELSE self

\* Values a caller passes for hover_motors_count, or assigns to it
CallerCounts == {<<>>, <<7>>}

\* VehicleConfig(**fields)
ConstructorInputs ==
    {[DefaultConfig EXCEPT !.frame_type = f, !.motor_config = m, !.vtol_config = v,
                           !.hover_motors_count = n, !.total_motors_count = <<>>] :
        f \in FrameTypes \cup {"none"}, m \in MotorConfigurations \cup {"none"},
        v \in VTOLConfigurations \cup {"none"}, n \in CallerCounts}

ConfigInit ==
    /\ config \in {calculate_motor_counts(c) : c \in ConstructorInputs}
    /\ pc = "config"
    /\ waypoints = <<>>
    /\ wind_data = <<>>
    /\ i = 0
    /\ segments = <<>>
    /\ total_energy = I(0)
    /\ total_time = I(0)
    /\ total_distance = I(0)
    /\ result = <<>>
    /\ error = "none"
    /\ power_calls = <<>>
    /\ wind_used = <<>>
    /\ power_args = NoPowerArgs
    /\ power_result = <<>>
    /\ calls = 1
    /\ first_call = <<>>
    /\ AnalyzerIdle
    /\ ServiceIdle

\* config.frame_type = f
SetFrameType ==
    /\ pc = "config"
    /\ \E f \in FrameTypes \cup {"none"} : config' = [config EXCEPT !.frame_type = f]
    /\ UNCHANGED <<wind_data, power_args, power_result, mission_vars>>
    /\ UNCHANGED <<analyzer_vars, service_vars>>

\* config.motor_config = m
SetMotorConfig ==
    /\ pc = "config"
    /\ \E m \in MotorConfigurations \cup {"none"} : config' = [config EXCEPT !.motor_config = m]
    /\ UNCHANGED <<wind_data, power_args, power_result, mission_vars>>
    /\ UNCHANGED <<analyzer_vars, service_vars>>

\* config.hover_motors_count = n
SetHoverMotorsCount ==
    /\ pc = "config"
    /\ \E n \in CallerCounts : config' = [config EXCEPT !.hover_motors_count = n]
    /\ UNCHANGED <<wind_data, power_args, power_result, mission_vars>>
    /\ UNCHANGED <<analyzer_vars, service_vars>>

ConfigNext ==
    \/ SetFrameType
    \/ SetMotorConfig
    \/ SetHoverMotorsCount

ConfigSpec == ConfigInit /\ [][ConfigNext]_vars

\* ------------------------------------------------------------------------
\* Missions of short hops along one meridian: segments whose length lies on
\* either side of the 100 m mark of line 434, or exactly on it.
\* ------------------------------------------------------------------------
\* 100 m north of Home, at the same altitude
Hundred == Waypoint(100, 0, I(0))
\* 150 m straight above Home
Tower == Waypoint(0, 0, I(150))
\* 60 m north of Home and 80 m higher: 100 m away in three dimensions
Ridge == Waypoint(60, 0, I(80))

ShortHopPoints == {Home, Hundred, Tower, Ridge}

\* Missions start at Home, and every hop leaves Home, returns to it or stays
\* in place
ShortHopLists ==
    {w \in SeqsUpTo(ShortHopPoints, MaxWaypoints) :
        /\ Len(w) > 0 => w[1] = Home
        /\ \A k \in 1..(Len(w) - 1) : w[k] = w[k + 1] \/ Home \in {w[k], w[k + 1]}}

ShortHopInit ==
    /\ config \in WindConfigs
    /\ waypoints \in ShortHopLists
    /\ wind_data \in {<<>>, <<Calm>>}
    /\ pc = "start"
    /\ i = 0
    /\ segments = <<>>
    /\ total_energy = I(0)
    /\ total_time = I(0)
    /\ total_distance = I(0)
    /\ result = <<>>
    /\ error = "none"
    /\ power_calls = <<>>
    /\ wind_used = <<>>
    /\ power_args = NoPowerArgs
    /\ power_result = <<>>
    /\ calls = 1
    /\ first_call = <<>>
    /\ AnalyzerIdle
    /\ ServiceIdle

ShortHopSpec == ShortHopInit /\ [][Next]_vars

\* ------------------------------------------------------------------------
\* The GlauertAnalyzer called on its own
\* ------------------------------------------------------------------------

\* a 10 kg coaxial quadcopter: eight rotors, sweet spot from 3 to 5 m/s
CoaxialConfig == [DefaultConfig EXCEPT !.mass = I(10), !.motor_config = "coaxial",
                                       !.hover_power = I(1600), !.max_power = I(4000)]

AnalyzerConfigs == {MultirotorConfig, EstimatedHoverConfig, CoaxialConfig}

\* speed_range: start, start + step, ... (length entries)
Sweep(start, step, length) == [k \in 1..length |-> start + (k - 1) * step]

SweepStarts == {0, 5, 10}
SweepSteps == {1, 2}
SweepLengths == {0, 1, 3, 13}

SpeedRanges ==
    {Sweep(start, step, length) :
        start \in SweepStarts, step \in SweepSteps, length \in SweepLengths}

AnalyzerInit ==
    /\ config \in AnalyzerConfigs
    /\ speed_range \in SpeedRanges
    /\ analysis = <<>>
    /\ pc = "analyzer"
    /\ waypoints = <<>>
    /\ wind_data = <<>>
    /\ i = 0
    /\ segments = <<>>
    /\ total_energy = I(0)
    /\ total_time = I(0)
    /\ total_distance = I(0)
    /\ result = <<>>
    /\ error = "none"
    /\ power_calls = <<>>
    /\ wind_used = <<>>
    /\ power_args = NoPowerArgs
    /\ power_result = <<>>
    /\ calls = 1
    /\ first_call = <<>>
    /\ ServiceIdle

\* calculate_current_backend_efficiency_factor(config, speed) for a speed of
\* the sweep
CallEfficiencyFactor ==
    /\ pc = "analyzer"
    /\ analysis = <<>>
    /\ \E k \in 1..Len(speed_range) :
           analysis' = <<[call |-> "efficiency_factor", speed |-> speed_range[k],
                          factor |-> calculate_current_backend_efficiency_factor(
                                         config, Fx(speed_range[k], 1))]>>
    /\ UNCHANGED <<config, wind_data, power_args, power_result, mission_vars, speed_range,
                   service_vars>>

\* compare_methods(config, speed_range)
CallCompareMethods ==
    /\ pc = "analyzer"
    /\ analysis = <<>>
    /\ analysis' = <<[call |-> "compare_methods", out |-> compare_methods(config, speed_range)]>>
    /\ UNCHANGED <<config, wind_data, power_args, power_result, mission_vars, speed_range,
                   service_vars>>

AnalyzerNext ==
    \/ CallEfficiencyFactor
    \/ CallCompareMethods

AnalyzerSpec == AnalyzerInit /\ [][AnalyzerNext]_vars

\* ------------------------------------------------------------------------
\* The HTTP service: groups, stored sessions and the simulation endpoint
\* (backend/main.py, services/group_service.py, services/session_service.py).
\* user_groups, simulation_sessions and flight_segments are the committed
\* rows, the id of a group or of a session being its position; in_flight
\* holds the requests that have committed or computed a part of their work;
\* response is the answer of the last finished request.
\* ------------------------------------------------------------------------

MaxSessions == 1

Users == {1, 2}
\* A request without credentials
Anonymous == 0
Callers == Users \cup {Anonymous}
\* owner_id IS NULL
NoOwner == -1

GroupNames == {"crew"}
GroupIds == 1..2
SessionNames == {"survey"}
SessionIds == 1..(MaxSessions + 1)
\* request.get("name") of a body without the key
NoName == "None"
NameInputs == {"renamed", "", " ", NoName}

\* str.strip() of the names above
Strip(name) == IF name = " " THEN "" ELSE name

\* The answer of an endpoint: the caller, the status, the session and the name
\* of the request, and the sessions whose data it discloses or changes
Reply(endpoint, caller, status, session_id, sessions) == <<[endpoint |-> endpoint, caller |-> caller, status |-> status, session_id |-> session_id, name |-> NoName, sessions |-> sessions]>>

\* The answer to a request that carries a name
NamedReply(endpoint, caller, status, session_id, name, sessions) == <<[endpoint |-> endpoint, caller |-> caller, status |-> status, session_id |-> session_id, name |-> name, sessions |-> sessions]>>

EngineUnchanged == UNCHANGED <<config, wind_data, power_args, power_result, mission_vars, analyzer_vars>>

\* user in group.members
IsMember(user, group_id) == \E k \in 1..Len(user_groups[group_id].members) : user_groups[group_id].members[k] = user

\* user.groups
GroupsOf(user) == {g \in 1..Len(user_groups) : IsMember(user, g)}

\* db.query(UserGroup).filter(UserGroup.name == name).first()
GroupNamed(name) == {g \in 1..Len(user_groups) : user_groups[g].name = name}

\* db.query(SimulationSession).filter(SimulationSession.id == session_id).first()
SessionExists(session_id) == session_id \in 1..Len(simulation_sessions) /\ simulation_sessions[session_id].present

\* group_service.py lines 111-129
can_access_session(session_id, user) ==
    IF ~SessionExists(session_id) THEN FALSE
    ELSE IF simulation_sessions[session_id].owner_id = user THEN TRUE
    ELSE IF simulation_sessions[session_id].owner_id # NoOwner
         THEN \E g \in GroupsOf(simulation_sessions[session_id].owner_id) : IsMember(user, g)
         ELSE FALSE

\* group_service.py lines 20-36 behind group_routes.py lines 25-33, which
\* admits authenticated users only: the name check and the first commit,
\* which stores the group without members
CreateGroupInsert ==
    /\ pc = "service"
    /\ \E owner \in Users, name \in GroupNames :
           IF GroupNamed(name) # {}
           THEN /\ response' = Reply("create_group", owner, 400, 0, {})
                /\ UNCHANGED <<user_groups, in_flight>>
           ELSE /\ user_groups' = Append(user_groups, [name |-> name, owner_id |-> owner, members |-> <<>>])
                /\ in_flight' = in_flight \cup {[endpoint |-> "create_group", caller |-> owner, group_id |-> Len(user_groups) + 1]}
                /\ UNCHANGED response
    /\ UNCHANGED <<simulation_sessions, flight_segments>>
    /\ EngineUnchanged

\* group_service.py lines 38-42: the owner becomes a member in a second
\* commit; the primary key (user_id, group_id) of user_group_members refuses
\* a second row for an owner who has joined in the meantime
CreateGroupAddOwner ==
    /\ pc = "service"
    /\ \E r \in in_flight :
           /\ r.endpoint = "create_group"
           /\ IF IsMember(r.caller, r.group_id)
              THEN /\ response' = Reply("create_group", r.caller, 500, 0, {})
                   /\ UNCHANGED user_groups
              ELSE /\ user_groups' = [user_groups EXCEPT ![r.group_id].members = Append(@, r.caller)]
                   /\ response' = Reply("create_group", r.caller, 200, 0, {})
           /\ in_flight' = in_flight \ {r}
    /\ UNCHANGED <<simulation_sessions, flight_segments>>
    /\ EngineUnchanged

\* group_service.py lines 44-62 behind group_routes.py lines 35-43
JoinGroup ==
    /\ pc = "service"
    /\ \E user \in Users, name \in GroupNames :
           IF GroupNamed(name) = {}
           THEN /\ response' = Reply("join_group", user, 404, 0, {})
                /\ UNCHANGED user_groups
           ELSE LET g == CHOOSE g \in GroupNamed(name) : TRUE
                IN  IF IsMember(user, g)
                    THEN /\ response' = Reply("join_group", user, 400, 0, {})
                         /\ UNCHANGED user_groups
                    ELSE /\ user_groups' = [user_groups EXCEPT ![g].members = Append(@, user)]
                         /\ response' = Reply("join_group", user, 200, 0, {})
    /\ UNCHANGED <<simulation_sessions, flight_segments, in_flight>>
    /\ EngineUnchanged

\* list.remove(user): the list without the first occurrence of user
Remove(members, user) ==
    LET k == CHOOSE k \in 1..Len(members) : members[k] = user /\ \A j \in 1..(k - 1) : members[j] # user
    IN  SubSeq(members, 1, k - 1) \o SubSeq(members, k + 1, Len(members))

\* group_service.py line 74
OwnerCannotLeave(group_id, user) == user_groups[group_id].owner_id = user

\* group_service.py lines 64-88 behind group_routes.py lines 45-53
LeaveGroup ==
    /\ pc = "service"
    /\ \E user \in Users, group_id \in GroupIds :
           IF group_id > Len(user_groups)
           THEN /\ response' = Reply("leave_group", user, 404, 0, {})
                /\ UNCHANGED user_groups
           ELSE IF OwnerCannotLeave(group_id, user) \/ ~IsMember(user, group_id)
           THEN /\ response' = Reply("leave_group", user, 400, 0, {})
                /\ UNCHANGED user_groups
           ELSE /\ user_groups' = [user_groups EXCEPT ![group_id].members = Remove(@, user)]
                /\ response' = Reply("leave_group", user, 200, 0, {})
    /\ UNCHANGED <<simulation_sessions, flight_segments, in_flight>>
    /\ EngineUnchanged

\* main.py lines 278-302: POST /api/sessions stores an empty session owned by
\* the caller
CreateEmptySession ==
    /\ pc = "service"
    /\ \E caller \in Users, name \in SessionNames :
           /\ Len(simulation_sessions) < MaxSessions
                /\ simulation_sessions' = Append(simulation_sessions, [name |-> name, owner_id |-> caller, present |-> TRUE])
                /\ response' = Reply("create_session", caller, 200, Len(simulation_sessions) + 1, {})
    /\ UNCHANGED <<user_groups, flight_segments, in_flight>>
    /\ EngineUnchanged

\* main.py lines 305-334
GetSessions ==
    /\ pc = "service"
    /\ \E caller \in Users :
           response' = Reply("get_sessions", caller, 200, 0,
                                  {s \in 1..Len(simulation_sessions) :
                                      /\ SessionExists(s)
                                      /\ \/ simulation_sessions[s].owner_id = caller
                                         \/ can_access_session(s, caller)})
    /\ UNCHANGED <<user_groups, simulation_sessions, flight_segments, in_flight>>
    /\ EngineUnchanged

\* main.py lines 336-351
GetSession ==
    /\ pc = "service"
    /\ \E caller \in Users, session_id \in SessionIds :
           IF ~can_access_session(session_id, caller)
           THEN response' = Reply("get_session", caller, 403, session_id, {})
           ELSE IF ~SessionExists(session_id)
           THEN response' = Reply("get_session", caller, 404, session_id, {})
           ELSE response' = Reply("get_session", caller, 200, session_id, {session_id})
    /\ UNCHANGED <<user_groups, simulation_sessions, flight_segments, in_flight>>
    /\ EngineUnchanged

\* main.py lines 353-362 and session_service.py lines 96-117: the endpoint
\* takes no user, so any caller is served
RestoreSession ==
    /\ pc = "service"
    /\ \E caller \in Callers, session_id \in SessionIds :
           IF SessionExists(session_id)
           THEN response' = Reply("restore_session", caller, 200, session_id, {session_id})
           ELSE response' = Reply("restore_session", caller, 404, session_id, {})
    /\ UNCHANGED <<user_groups, simulation_sessions, flight_segments, in_flight>>
    /\ EngineUnchanged

\* main.py lines 367-376 and session_service.py lines 123-130: the body of the
\* try statement of update_session_name, which returns or raises
UpdateSessionNameBody(session_id, new_name) ==
    IF new_name = NoName \/ new_name = "" \/ Strip(new_name) = ""
    THEN Raise("HTTPException(400)")
    ELSE IF SessionExists(session_id)
    THEN Ok([success |-> TRUE, name |-> Strip(new_name)])
    ELSE Raise("HTTPException(404)")

\* main.py lines 377-378 and 389-390: except Exception catches the
\* HTTPException raised in the try statement as well
ExceptException(out) == IF IsOk(out) THEN 200 ELSE 500

\* main.py lines 364-378: the endpoint takes no user
UpdateSessionName ==
    /\ pc = "service"
    /\ \E caller \in Callers, session_id \in SessionIds, new_name \in NameInputs :
           LET out == UpdateSessionNameBody(session_id, new_name)
           IN  /\ simulation_sessions' = IF IsOk(out)
                                         THEN [simulation_sessions EXCEPT ![session_id].name = out.val.name]
                                         ELSE simulation_sessions
               /\ response' = NamedReply("update_session_name", caller, ExceptException(out), session_id,
                                         new_name, IF IsOk(out) THEN {session_id} ELSE {})
    /\ UNCHANGED <<user_groups, flight_segments, in_flight>>
    /\ EngineUnchanged

\* main.py lines 383-388 and session_service.py lines 132-139: the body of the
\* try statement of delete_session
DeleteSessionBody(session_id) ==
    IF SessionExists(session_id)
    THEN Ok([success |-> TRUE])
    ELSE Raise("HTTPException(404)")

\* The rows of flight_segments left by the cascade of database.py line 46
WithoutSegmentsOf(rows, session_id) == SelectSeq(rows, LAMBDA row : row.session_id # session_id)

\* main.py lines 380-390: the endpoint takes no user
DeleteSession ==
    /\ pc = "service"
    /\ \E caller \in Callers, session_id \in SessionIds :
           LET out == DeleteSessionBody(session_id)
           IN  /\ simulation_sessions' = IF IsOk(out)
                                         THEN [simulation_sessions EXCEPT ![session_id].present = FALSE]
                                         ELSE simulation_sessions
               /\ flight_segments' = IF IsOk(out) THEN WithoutSegmentsOf(flight_segments, session_id)
                                     ELSE flight_segments
               /\ response' = Reply("delete_session", caller, ExceptException(out), session_id,
                                    IF IsOk(out) THEN {session_id} ELSE {})
    /\ UNCHANGED <<user_groups, in_flight>>
    /\ EngineUnchanged

\* Requests of POST /api/simulation with manual wind enabled
SimulationRequests ==
    [vehicle_config : {MultirotorConfig, PlaneConfig},
     waypoints : {<<Home>>, <<Home, North>>, <<Home, Above, North>>},
     manual_wind_speed_ms : {I(5)},
     manual_wind_direction_deg : {0}]

\* main.py lines 185-199: one manual wind sample for every waypoint
RequestWind(request) == [k \in 1..Len(request.waypoints) |-> create_manual_wind_data(request.manual_wind_speed_ms, request.manual_wind_direction_deg)]

\* main.py lines 170-212: run_simulation up to its call of
\* calculate_energy_consumption, whose steps are the actions of Next
BeginSimulation ==
    /\ pc = "service"
    /\ \E caller \in Users, request \in SimulationRequests :
           /\ config' = request.vehicle_config
                /\ waypoints' = request.waypoints
                /\ wind_data' = RequestWind(request)
                /\ pc' = "start"
                /\ in_flight' = in_flight \cup {[endpoint |-> "run_simulation", caller |-> caller, group_id |-> 0]}
                /\ response' = <<>>
    /\ UNCHANGED <<i, segments, total_energy, total_time, total_distance, result, error,
                   power_calls, wind_used, power_args, power_result, calls, first_call>>
    /\ UNCHANGED <<user_groups, simulation_sessions, flight_segments, analyzer_vars>>

\* The service between two simulations
EndSimulation ==
    /\ pc' = "service"
    /\ config' = MultirotorConfig
    /\ waypoints' = <<>>
    /\ wind_data' = <<>>
    /\ i' = 0
    /\ segments' = <<>>
    /\ total_energy' = I(0)
    /\ total_time' = I(0)
    /\ total_distance' = I(0)
    /\ result' = <<>>
    /\ error' = "none"
    /\ power_calls' = <<>>
    /\ wind_used' = <<>>
    /\ UNCHANGED <<power_args, power_result, calls, first_call, analyzer_vars>>

\* main.py lines 227-231: an exception of calculate_energy_consumption is
\* answered with 500
FailSimulation ==
    /\ pc = "raised"
    /\ \E r \in in_flight :
           /\ r.endpoint = "run_simulation"
           /\ response' = Reply("run_simulation", r.caller, 500, 0, {})
           /\ in_flight' = in_flight \ {r}
    /\ EndSimulation
    /\ UNCHANGED <<user_groups, simulation_sessions, flight_segments>>

\* session_service.py lines 10-12: the parameters of create_session
CreateSessionParameters == {"db", "simulation_request", "simulation_result", "session_name"}

\* main.py lines 217-222: the keywords of the call in run_simulation
RunSimulationKeywords == {"db", "simulation_request", "simulation_result", "owner_id"}

\* session_service.py lines 10-86 called with the given keywords: a keyword
\* that is no parameter raises TypeError before the body runs; the body
\* stores a session, whose owner_id it does not set, and one row for every
\* segment of the result
create_session(keywords, simulation_request, simulation_result) ==
    IF ~(keywords \subseteq CreateSessionParameters)
    THEN Raise("TypeError")
    ELSE Ok([session |-> [name |-> "Simulation", owner_id |-> NoOwner, present |-> TRUE],
             rows |-> [k \in 1..Len(simulation_result.flight_segments) |->
                          [session_id |-> Len(simulation_sessions) + 1,
                           segment_id |-> simulation_result.flight_segments[k].segment_id]]])

\* main.py lines 214-231: the result is handed to create_session; any
\* exception is answered with 500
SaveSimulation ==
    /\ pc = "returned"
    /\ \E r \in in_flight :
           /\ r.endpoint = "run_simulation"
           /\ LET out == create_session(RunSimulationKeywords,
                                        [vehicle_config |-> config, waypoints |-> waypoints],
                                        result[1])
              IN  IF IsOk(out)
                  THEN /\ Len(simulation_sessions) < MaxSessions
                       /\ simulation_sessions' = Append(simulation_sessions, out.val.session)
                       /\ flight_segments' = flight_segments \o out.val.rows
                       /\ response' = Reply("run_simulation", r.caller, 200, Len(simulation_sessions) + 1, {})
                  ELSE /\ response' = Reply("run_simulation", r.caller, 500, 0, {})
                       /\ UNCHANGED <<simulation_sessions, flight_segments>>
           /\ in_flight' = in_flight \ {r}
    /\ EndSimulation
    /\ UNCHANGED user_groups

ServiceInit ==
    /\ config = MultirotorConfig
    /\ waypoints = <<>>
    /\ wind_data = <<>>
    /\ pc = "service"
    /\ i = 0
    /\ segments = <<>>
    /\ total_energy = I(0)
    /\ total_time = I(0)
    /\ total_distance = I(0)
    /\ result = <<>>
    /\ error = "none"
    /\ power_calls = <<>>
    /\ wind_used = <<>>
    /\ power_args = NoPowerArgs
    /\ power_result = <<>>
    /\ calls = 1
    /\ first_call = <<>>
    /\ AnalyzerIdle
    /\ ServiceIdle

ServiceNext ==
    \/ CreateGroupInsert
    \/ CreateGroupAddOwner
    \/ JoinGroup
    \/ LeaveGroup
    \/ CreateEmptySession
    \/ GetSessions
    \/ GetSession
    \/ RestoreSession
    \/ UpdateSessionName
    \/ DeleteSession
    \/ BeginSimulation
    \/ RaiseTooFewWaypoints
    \/ BeginMission
    \/ MultirotorSegment
    \/ TraditionalSegment
    \/ ReturnResult
    \/ FailSimulation
    \/ SaveSimulation

ServiceSpec == ServiceInit /\ [][ServiceNext]_vars

\* ------------------------------------------------------------------------
\* Properties
\* ------------------------------------------------------------------------

Returned == pc = "returned"
KnownTypes == {"multirotor", "vtol", "plane"}
Coincident(k) == waypoints[k] = waypoints[k + 1]

RECURSIVE SumOver(_, _)
SumOver(segs, field) ==
    IF segs = <<>> THEN I(0)
    ELSE RAdd(SumOver(SubSeq(segs, 1, Len(segs) - 1), field), segs[Len(segs)][field])

\* C1: in every returned result, every segment's energy_wh equals
\* average_power_w * duration_s / 3600 (linear, zero-duration and fallback
\* segments alike).
C1_EnergyIsPowerTimesDuration ==
    Returned =>
        \A k \in 1..Len(result[1].flight_segments) :
            LET s == result[1].flight_segments[k]
            IN  s.energy_wh = RDiv(RMul(s.average_power_w, s.duration_s), I(3600))

\* C1 witness: a returned rotorcraft result holding a zero-duration segment
\* followed by a segment of the fallback path.
C1_Witness ==
    /\ Returned
    /\ config.vehicle_type = "multirotor"
    /\ Len(result[1].flight_segments) = 2
    /\ RIsZero(result[1].flight_segments[1].duration_s)
    /\ power_calls[2].path = "fallback"
    /\ RPos(result[1].flight_segments[2].energy_wh)

\* C4: a call with fewer than two waypoints ends with ValueError, without a
\* result and before any segment, wind sample or battery value is evaluated.
C4_TooFewWaypointsRejected ==
    (Len(waypoints) < 2 /\ pc # "start") =>
        /\ pc = "raised"
        /\ error = "ValueError"
        /\ result = <<>>
        /\ segments = <<>>
        /\ wind_used = <<>>
        /\ power_calls = <<>>

\* C4 witness: the call with a single waypoint and a wind list has raised.
C4_Witness ==
    /\ Len(waypoints) = 1
    /\ wind_data # <<>>
    /\ pc = "raised"
    /\ error = "ValueError"

\* C10: in every returned result the three totals are the sums over
\* flight_segments, and flight_segments holds len(waypoints) - 1 segments,
\* segment i running from waypoint i to waypoint i + 1.
C10_TotalsAreSums ==
    Returned =>
        LET r == result[1]
        IN  /\ r.total_energy_wh = SumOver(r.flight_segments, "energy_wh")
            /\ r.total_distance_m = SumOver(r.flight_segments, "distance_m")
            /\ r.total_time_s = SumOver(r.flight_segments, "duration_s")
            /\ Len(r.flight_segments) = Len(waypoints) - 1
            /\ \A k \in 1..Len(r.flight_segments) :
                   /\ r.flight_segments[k].segment_id = k - 1
                   /\ r.flight_segments[k].start_waypoint = waypoints[k]
                   /\ r.flight_segments[k].end_waypoint = waypoints[k + 1]

\* C10 witness: a returned result of two different segments, both with
\* energy, distance and duration.
C10_Witness ==
    /\ Returned
    /\ Len(result[1].flight_segments) = 2
    /\ waypoints[1] # waypoints[3]
    /\ \A k \in 1..2 : /\ RPos(result[1].flight_segments[k].energy_wh)
                        /\ RPos(result[1].flight_segments[k].duration_s)
                        /\ RPos(result[1].flight_segments[k].distance_m)

\* The sample min(i, m - 1) of a non-empty wind list of length m, for
\* segment i = k - 1; no sample for an empty list
SampleFor(k) ==
    IF Len(wind_data) = 0 THEN <<>>
    ELSE IF k <= Len(wind_data) THEN <<wind_data[k]>>
    ELSE <<wind_data[Len(wind_data)]>>

\* C8: segment i is computed with the wind sample min(i, m - 1) of a
\* non-empty wind list, and without wind when the list is empty; without
\* wind the segment reports headwind 0 and crosswind 0.
C8_WindSampleBySegmentIndex ==
    /\ \A k \in 1..Len(wind_used) : wind_used[k] = SampleFor(k)
    /\ \A k \in 1..Len(segments) :
           /\ segments[k].wind_influence
                  = WindInfluence(waypoints[k], waypoints[k + 1], SampleFor(k))
           /\ wind_data = <<>> =>
                  /\ RIsZero(segments[k].wind_influence.headwind_ms)
                  /\ RIsZero(segments[k].wind_influence.crosswind_ms)

\* C8 witness: one sample, held for the second segment as well, which
\* reports the wind it was computed with.
C8_Witness ==
    /\ Returned
    /\ wind_data = <<Breeze>>
    /\ Len(segments) = 2
    /\ wind_used[2] = <<Breeze>>
    /\ ~RIsZero(segments[2].wind_influence.headwind_ms)

\* C6: a segment between two identical waypoints has distance, duration and
\* energy 0; for the three vehicle types no such segment raises, and a
\* mission made of such segments only returns a result with all of them.
C6_CoincidentWaypoints ==
    /\ \A k \in 1..Len(segments) :
           Coincident(k) => /\ RIsZero(segments[k].distance_m)
                            /\ RIsZero(segments[k].duration_s)
                            /\ RIsZero(segments[k].energy_wh)
    /\ (config.vehicle_type \in KnownTypes /\ pc = "raised" /\ Len(waypoints) >= 2)
           => ~Coincident(i + 1)
    /\ (Returned /\ \A k \in 1..(Len(waypoints) - 1) : Coincident(k))
           => /\ Len(result[1].flight_segments) = Len(waypoints) - 1
              /\ RIsZero(result[1].total_energy_wh)
              /\ RIsZero(result[1].total_time_s)
              /\ RIsZero(result[1].total_distance_m)

\* C6 witness: a fixed-wing mission of two segments between identical
\* waypoints has returned.
C6_Witness ==
    /\ Returned
    /\ config.vehicle_type = "plane"
    /\ Len(result[1].flight_segments) = 2
    /\ Coincident(1)
    /\ Coincident(2)

NonNegative(x) == ~IsHuge(x) /\ ~RNegative(x)

\* C2: every value returned by one of the three power models lies in
\* [0, config.max_power], the value of the rotorcraft model's exception
\* branch included.
C2_PowerWithinLimits ==
    \A k \in 1..Len(power_result) :
        IsOk(power_result[k].out) =>
            /\ NonNegative(power_result[k].out.val)
            /\ RLe(power_result[k].out.val, config.max_power)

\* C3: with two or more waypoints and one of the three vehicle types the
\* call never raises, and what it returns is complete and non-negative.
C3_AlwaysReturnsAfterValidation ==
    (Len(waypoints) >= 2 /\ config.vehicle_type \in KnownTypes) =>
        /\ pc # "raised"
        /\ Returned =>
               /\ Len(result[1].flight_segments) = Len(waypoints) - 1
               /\ NonNegative(result[1].total_energy_wh)
               /\ NonNegative(result[1].total_distance_m)
               /\ NonNegative(result[1].total_time_s)
               /\ NonNegative(result[1].battery_usage_percent)
               /\ \A k \in 1..Len(result[1].flight_segments) :
                      /\ NonNegative(result[1].flight_segments[k].energy_wh)
                      /\ NonNegative(result[1].flight_segments[k].distance_m)
                      /\ NonNegative(result[1].flight_segments[k].duration_s)
                      /\ NonNegative(result[1].flight_segments[k].average_power_w)

\* C5: with two or more waypoints and a vehicle type that is none of the
\* three, the call raises ValueError and nothing else, and returns nothing.
C5_UnknownTypeRaisesValueError ==
    (Len(waypoints) >= 2 /\ config.vehicle_type \notin KnownTypes) =>
        /\ ~Returned
        /\ result = <<>>
        /\ pc = "raised" => error = "ValueError"

\* The duration C7 states for the rotorcraft segment k (HUGE for an altitude
\* difference beyond the double range of its square)
StatedDuration(k) ==
    LET h == HorizontalDistance(waypoints[k], waypoints[k + 1])
        v == VerticalDistance(waypoints[k], waypoints[k + 1])
        horizontal == RDiv(h, RMin(config.cruise_speed, config.max_speed))
        vertical == RDiv(RAbs(v), IF RPos(v) THEN config.max_climb_rate
                                  ELSE config.max_descent_speed)
    IN  IF IsHuge(v) THEN HUGE ELSE RMax(horizontal, vertical)

\* C7: a rotorcraft segment lasts the longer of horizontal distance over
\* min(cruise_speed, max_speed) and |altitude delta| over the climb or descent
\* limit, and the power model is called with the horizontal distance and the
\* signed altitude delta, each divided by that duration.
C7_DurationAndDerivedSpeeds ==
    config.vehicle_type = "multirotor" =>
        \A k \in 1..Len(segments) :
            /\ segments[k].duration_s = StatedDuration(k)
            /\ power_calls[k].path = "linear_flight" =>
                   /\ power_calls[k].speed
                          = RDiv(HorizontalDistance(waypoints[k], waypoints[k + 1]),
                                 segments[k].duration_s)
                   /\ power_calls[k].climb_rate
                          = RDiv(VerticalDistance(waypoints[k], waypoints[k + 1]),
                                 segments[k].duration_s)

\* Segment k as it is computed without any wind sample
NoWindSegment(k) ==
    IF config.vehicle_type = "multirotor"
    THEN MultirotorFlightSegment(k - 1, waypoints[k], waypoints[k + 1], <<>>,
             calculate_copter_interpolated_segments(config, waypoints[k], waypoints[k + 1], <<>>))
    ELSE TraditionalFlightSegment(config, k - 1, waypoints[k], waypoints[k + 1], <<>>).seg

RECURSIVE NoWindTotal(_, _)
NoWindTotal(n, field) ==
    IF n = 0 THEN I(0) ELSE RAdd(NoWindTotal(n - 1, field), NoWindSegment(n)[field])

\* C9: a segment computed with a wind sample of speed and components 0 has
\* the power, duration and energy it has without wind, and a mission whose
\* samples are all such has the totals it has without wind.
C9_CalmWindIsNoWind ==
    /\ \A k \in 1..Len(segments) :
           wind_used[k] = <<Calm>> =>
               /\ segments[k].average_power_w = NoWindSegment(k).average_power_w
               /\ segments[k].duration_s = NoWindSegment(k).duration_s
               /\ segments[k].energy_wh = NoWindSegment(k).energy_wh
    /\ (Returned /\ wind_data # <<>> /\ \A k \in 1..Len(wind_data) : wind_data[k] = Calm) =>
           /\ result[1].total_energy_wh = NoWindTotal(Len(segments), "energy_wh")
           /\ result[1].total_time_s = NoWindTotal(Len(segments), "duration_s")
           /\ result[1].total_distance_m = NoWindTotal(Len(segments), "distance_m")

\* C11: in every returned result the summary holds battery_capacity_wh =
\* battery_capacity * battery_voltage / 1000, remaining_energy_wh = capacity -
\* total_energy_wh and remaining_battery_percent = 100 - battery_usage_percent,
\* and is_feasible holds exactly when total_energy_wh < battery_capacity_wh,
\* which is exactly when battery_usage_percent < 100.
C11_BatterySummary ==
    Returned =>
        LET r == result[1]
            capacity == RDiv(RMul(config.battery_capacity, config.battery_voltage), I(1000))
        IN  /\ r.summary.battery_capacity_wh = capacity
            /\ r.summary.remaining_energy_wh = RSub(capacity, r.total_energy_wh)
            /\ r.summary.remaining_battery_percent = RSub(I(100), r.battery_usage_percent)
            /\ r.summary.is_feasible <=> RLt(r.total_energy_wh, capacity)
            /\ r.summary.is_feasible <=> RLt(r.battery_usage_percent, I(100))

\* C11 witness: a returned mission that has used exactly the capacity of its
\* battery, and is reported infeasible.
C11_Witness ==
    /\ Returned
    /\ RPos(result[1].total_energy_wh)
    /\ result[1].total_energy_wh = result[1].summary.battery_capacity_wh
    /\ result[1].battery_usage_percent = I(100)
    /\ ~result[1].summary.is_feasible

\* C12: in every state of a VehicleConfig, after construction and after any
\* assignments to frame_type, motor_config or hover_motors_count, the field
\* hover_motors_count is set, is at least 1, and is the arm count of
\* frame_type (3, 4, 6 or 8), doubled for a coaxial motor_config.
C12_HoverMotorsCountFollowsTopology ==
    pc = "config" =>
        /\ config.hover_motors_count # <<>>
        /\ config.hover_motors_count[1] >= 1
        /\ config.frame_type \in FrameTypes =>
               config.hover_motors_count[1]
                   = BaseMotors(config.frame_type)
                     * (IF config.motor_config = "coaxial" THEN 2 ELSE 1)

\* C13: an invocation with the configuration, waypoints and wind samples of
\* the first invocation on the instance ends as the first one did (the same
\* result, or the same exception), whatever invocations ran in between.
C13_SameInputsSameResult ==
    (/\ first_call # <<>>
     /\ pc \in {"returned", "raised"}
     /\ config = first_call[1].config
     /\ waypoints = first_call[1].waypoints
     /\ wind_data = first_call[1].wind_data)
        => Outcome = first_call[1].outcome

\* C13 witness: the third invocation on the instance has returned a mission
\* with energy for the inputs of the first, a wind sample among them.
C13_Witness ==
    /\ calls = 3
    /\ Returned
    /\ first_call # <<>>
    /\ config = first_call[1].config
    /\ waypoints = first_call[1].waypoints
    /\ wind_data = first_call[1].wind_data
    /\ wind_data # <<>>
    /\ RPos(result[1].total_energy_wh)

\* The hover power of the rotorcraft model: the configured one, or the estimate
HoverPowerOf(cfg, air_density) ==
    Watts(estimate_hover_power(cfg, FMax(Fx(1, 10), FromR(air_density)),
                               _calculate_hover_motors_count(cfg)))

\* Lines 280-282, as rationals
SweetSpotMin(cfg) == RMax(I(2), RMul(cfg.mass, R(3, 10)))
SweetSpotMax(cfg) == RMax(I(4), RMul(cfg.mass, R(5, 10)))
SweetSpotCenter(cfg) == RDiv(RAdd(SweetSpotMin(cfg), SweetSpotMax(cfg)), I(2))

\* A speed of at least three times the upper end of the band
FarAboveSweetSpot(speed, cfg) == IsHuge(speed) \/ RLe(RMul(I(3), SweetSpotMax(cfg)), speed)

\* A call of the rotorcraft model with zero climb rate and without wind
LevelCalmCall(k) ==
    /\ power_result[k].model = "multirotor"
    /\ RIsZero(power_args.climb_rate)
    /\ wind_data = <<>>

\* The total of the call k is below max_power: the result is the sum of the
\* terms, not the limit (a total beyond the double range is above any limit)
TotalBelowMaxPower(k) ==
    /\ ~(power_result[k].model = "multirotor" /\ IsHuge(power_args.speed))
    /\ RLt(power_result[k].out.val, config.max_power)

\* The three statements about the call k of the rotorcraft model
SweetSpotStatements(k) ==
    LET p == power_result[k].out.val
        hover == HoverPowerOf(config, power_args.air_density)
        at_center == calculate_multirotor_power(config, SweetSpotCenter(config), I(0),
                                                power_args.air_density, <<>>, NONE).val
    IN  /\ RIsZero(power_args.speed) => p = hover
        /\ power_args.speed = SweetSpotCenter(config) => RLt(p, hover)
        /\ FarAboveSweetSpot(power_args.speed, config) => RLt(at_center, p)

WithClimbRate(k, climb_rate) ==
    CASE power_result[k].model = "multirotor" ->
             calculate_multirotor_power(config, power_args.speed, climb_rate,
                                        power_args.air_density, wind_data, NONE)
      [] power_result[k].model = "vtol" ->
             calculate_vtol_power(config, power_args.speed, climb_rate,
                                  power_args.air_density, wind_data)
      [] OTHER ->
             calculate_plane_power(config, power_args.speed, climb_rate,
                                   power_args.air_density, wind_data)

\* mass * g * climb_rate / motor_efficiency
ClimbContribution(cfg, climb_rate) ==
    RDiv(RMul(RMul(cfg.mass, ToR(GRAVITY)), climb_rate), cfg.motor_efficiency)

C18_ForwardFlightAboveHover ==
    \A k \in 1..Len(power_result) :
        (/\ LevelCalmCall(k)
         /\ Truthy(config.hover_power)
         /\ power_args.speed = I(10)
         /\ RLt(HoverPowerOf(config, power_args.air_density), config.max_power)
         /\ TotalBelowMaxPower(k))
            => RLt(calculate_multirotor_power(config, I(0), I(0), power_args.air_density,
                                              <<>>, NONE).val,
                   power_result[k].out.val)

\* The ground speed of the rotorcraft segment k (it has a duration)
GroundSpeed(k) ==
    RDiv(HorizontalDistance(waypoints[k], waypoints[k + 1]), segments[k].duration_s)

\* C19: for a rotorcraft segment flown with a wind sample, the airspeed the
\* power model bases its efficiency factor and its drag on is
\* max(0.1, ground speed - headwind), with the headwind the segment reports:
\* the wind correction is applied once.
C19_AirspeedCorrectedOnce ==
    config.vehicle_type = "multirotor" =>
        \A k \in 1..Len(segments) :
            (power_calls[k].path = "linear_flight" /\ wind_used[k] # <<>>) =>
                EffectiveAirspeed(RMax(I(0), power_calls[k].speed), wind_used[k], NONE)
                    = RMax(R(1, 10), RSub(GroundSpeed(k), segments[k].wind_influence.headwind_ms))

\* The zero-wind cruise power of the fixed-wing segment k: level flight
\* without wind at the segment's speed and air density
ZeroWindCruisePower(k) ==
    calculate_plane_power(config, segments[k].average_speed_ms, I(0),
                          ToR(calculate_air_density(AverageAltitude(waypoints[k], waypoints[k + 1]))),
                          <<>>).val

\* C20: for a fixed-wing segment flown with a wind sample, a positive reported
\* headwind gives at least the power of the segment without wind, a negative
\* one at most that power, whatever the bearing, and the power is never
\* below half the zero-wind cruise power.
C20_PlaneWindSign ==
    config.vehicle_type = "plane" =>
        \A k \in 1..Len(segments) :
            wind_used[k] # <<>> =>
                LET headwind_ms == segments[k].wind_influence.headwind_ms
                    power == segments[k].average_power_w
                    calm == NoWindSegment(k).average_power_w
                IN  /\ RPos(headwind_ms) => RLe(calm, power)
                    /\ RNegative(headwind_ms) => RLe(power, calm)
                    /\ RLe(RDiv(ZeroWindCruisePower(k), I(2)), power)

\* The wind sample of segment k is a tailwind along the segment's bearing:
\* the reported headwind is negative and there is no crosswind
PureTailwind(k) ==
    /\ wind_used[k] # <<>>
    /\ RNegative(segments[k].wind_influence.headwind_ms)
    /\ RIsZero(segments[k].wind_influence.crosswind_ms)

\* C15: a rotorcraft segment flown with a pure tailwind along its bearing
\* has a power that is at most the power of the same segment without wind.
C15_TailwindNeedsNoMorePower ==
    config.vehicle_type = "multirotor" =>
        \A k \in 1..Len(segments) :
            PureTailwind(k) =>
                RLe(segments[k].average_power_w, NoWindSegment(k).average_power_w)

\* The bearing of segment k, and the direction of the sample it was flown with
BearingOf(k) == FlightBearingDeg(waypoints[k], waypoints[k + 1])
DirectionOf(k) == wind_used[k][1].wind_direction_deg

\* C16: for a sample built by create_manual_wind_data with speed s > 0 and
\* direction d, a segment of bearing d reports headwind_ms = +s and a segment
\* of bearing d + 180 reports headwind_ms = -s.
C16_HeadwindFollowsFromDirection ==
    \A k \in 1..Len(segments) :
        (wind_used[k] # <<>> /\ ~RIsZero(HorizontalDistance(waypoints[k], waypoints[k + 1]))) =>
            /\ DirectionOf(k) = I(BearingOf(k)) =>
                   segments[k].wind_influence.headwind_ms = wind_used[k][1].wind_speed_ms
            /\ DirectionOf(k) = I((BearingOf(k) + 180) % 360) =>
                   segments[k].wind_influence.headwind_ms = RNeg(wind_used[k][1].wind_speed_ms)

\* The speed the claim gives a VTOL or fixed-wing segment: cruise speed, cut
\* by 30% when the horizontal distance is below 100 m
SpeedByHorizontalDistance(k) ==
    IF RLt(HorizontalDistance(waypoints[k], waypoints[k + 1]), I(100))
    THEN RMul(config.cruise_speed, R(7, 10))
    ELSE config.cruise_speed

\* C21: a VTOL or fixed-wing segment flies at cruise speed, reduced by 30%
\* exactly when its horizontal distance is below 100 m; its flight time is
\* distance / speed and its climb rate the altitude delta over that time.
C21_ShortSegmentSpeed ==
    config.vehicle_type \in {"vtol", "plane"} =>
        \A k \in 1..Len(segments) :
            /\ segments[k].average_speed_ms = SpeedByHorizontalDistance(k)
            /\ segments[k].duration_s
                   = RDiv(segments[k].distance_m, segments[k].average_speed_ms)
            /\ RPos(segments[k].duration_s) =>
                   power_calls[k].climb_rate
                       = RDiv(VerticalDistance(waypoints[k], waypoints[k + 1]),
                              segments[k].duration_s)

\* The call k is a call of the VTOL model that returned a value
VtolAnswered(k) == power_result[k].model = "vtol" /\ IsOk(power_result[k].out)

\* The ground speed of the call is below the 5 m/s transition
BelowTransition == ~IsHuge(power_args.speed) /\ RLt(power_args.speed, I(5))

\* The hover power the cruise formula starts from: the configured one, or the
\* estimate at the air density of the call
NominalHoverPower ==
    estimate_hover_power(config, FromR(power_args.air_density),
                         _calculate_hover_motors_count(config))

\* C22: below 5 m/s calculate_vtol_power returns the value of
\* calculate_multirotor_power on the same arguments; from 5 m/s on it returns
\* the blended hover + forward-thrust total limited to max_power, in which the
\* hover share is at least 30% of the nominal hover power.
C22_VtolDelegatesBelowTransition ==
    \A k \in 1..Len(power_result) :
        VtolAnswered(k) =>
            IF BelowTransition
            THEN power_result[k].out
                     = calculate_multirotor_power(config, power_args.speed,
                                                  power_args.climb_rate,
                                                  power_args.air_density, wind_data, NONE)
            ELSE /\ power_result[k].out.val
                        = RMin(Watts(VtolCruisePower(config, power_args.speed,
                                                     power_args.climb_rate,
                                                     FromR(power_args.air_density),
                                                     wind_data)),
                               config.max_power)
                 /\ VtolHoverPower(config, power_args.speed, FromR(power_args.air_density))
                        >= FMul(NominalHoverPower, Fx(3, 10))

\* C22 witness: the VTOL model has answered a call at 3 m/s with the value of
\* the rotorcraft model, which is not the value of the cruise formula.
C22_Witness ==
    /\ power_result # <<>>
    /\ VtolAnswered(1)
    /\ power_args.speed = I(3)
    /\ power_result[1].out
           = calculate_multirotor_power(config, power_args.speed, power_args.climb_rate,
                                        power_args.air_density, wind_data, NONE)
    /\ power_result[1].out
           # VtolCruiseOnly(config, power_args.speed, power_args.climb_rate,
                            power_args.air_density, wind_data)

\* C23: for every configuration and every speed >= 0, the analyzer's
\* calculate_current_backend_efficiency_factor returns the factor of
\* EnergyCalculator._calculate_speed_efficiency_factor.
C23_AnalyzerReplicatesProductionCurve ==
    \A k \in 1..Len(analysis) :
        analysis[k].call = "efficiency_factor" =>
            analysis[k].factor
                = _calculate_speed_efficiency_factor(Fx(analysis[k].speed, 1), config)

\* The entry of the sweep the range is to be estimated at: the one whose
\* speed is 12, or the middle one when no entry has that speed
CruiseEntry(out) == out.comparison_data[IndexOfTwelve(speed_range) + 1]

\* C24: compare_methods estimates the range with the powers and the speed of
\* the sweep entry whose speed is 12 when the sweep has one, and of the middle
\* entry of the sweep otherwise.
C24_RangeAtTwelve ==
    \A k \in 1..Len(analysis) :
        (analysis[k].call = "compare_methods" /\ speed_range # <<>>
            /\ analysis[k].out.exc = "none") =>
            /\ analysis[k].out.range_analysis.current_backend_range
                   = RangeKm(UsableEnergy(config),
                             CruiseEntry(analysis[k].out).current_backend_power,
                             CruiseEntry(analysis[k].out).speed)
            /\ analysis[k].out.range_analysis.glauert_range
                   = RangeKm(UsableEnergy(config),
                             CruiseEntry(analysis[k].out).glauert_power,
                             CruiseEntry(analysis[k].out).speed)

\* The configured limits of the rotorcraft axes are positive
PositiveLimits ==
    /\ RPos(RMin(config.cruise_speed, config.max_speed))
    /\ RPos(config.max_climb_rate)
    /\ RPos(config.max_descent_speed)

\* The time segment k takes on the horizontal axis alone, and on the
\* vertical axis alone, at the configured limits
OwnHorizontalTime(k) ==
    RDiv(HorizontalDistance(waypoints[k], waypoints[k + 1]),
         RMin(config.cruise_speed, config.max_speed))
OwnVerticalTime(k) ==
    RDiv(RAbs(VerticalDistance(waypoints[k], waypoints[k + 1])),
         IF RPos(VerticalDistance(waypoints[k], waypoints[k + 1]))
         THEN config.max_climb_rate ELSE config.max_descent_speed)

\* C25: on every rotorcraft segment of positive duration flown under positive
\* limits, the derived horizontal speed is at most min(cruise_speed,
\* max_speed), the derived climb rate is at most max_climb_rate upwards and
\* max_descent_speed downwards, and the limiting axis reported is the axis
\* that takes longer on its own.
C25_DerivedSpeedsWithinLimits ==
    (config.vehicle_type = "multirotor" /\ PositiveLimits) =>
        \A k \in 1..Len(segments) :
            power_calls[k].path = "linear_flight" =>
                LET flown == power_calls[k].segments[1]
                IN  /\ RPos(flown.duration)
                    /\ RLe(flown.horizontal_speed, RMin(config.cruise_speed, config.max_speed))
                    /\ RPos(flown.climb_rate) => RLe(flown.climb_rate, config.max_climb_rate)
                    /\ RNegative(flown.climb_rate) =>
                           RLe(RNeg(flown.climb_rate), config.max_descent_speed)
                    /\ RLt(OwnHorizontalTime(k), OwnVerticalTime(k)) =>
                           flown.limiting_axis = "vertical"
                    /\ RLt(OwnVerticalTime(k), OwnHorizontalTime(k)) =>
                           flown.limiting_axis = "horizontal"

\* C25 witness: a descent along a horizontal leg on which the vertical axis
\* takes longer, flown below the horizontal speed limit at the full descent
\* speed.
C25_Witness ==
    /\ config.vehicle_type = "multirotor"
    /\ PositiveLimits
    /\ Len(segments) >= 1
    /\ \E k \in 1..Len(segments) :
           /\ power_calls[k].path = "linear_flight"
           /\ power_calls[k].segments[1].limiting_axis = "vertical"
           /\ RPos(power_calls[k].segments[1].horizontal_speed)
           /\ RLt(power_calls[k].segments[1].horizontal_speed,
                  RMin(config.cruise_speed, config.max_speed))
           /\ RNeg(power_calls[k].segments[1].climb_rate) = config.max_descent_speed

\* C26: every rotorcraft segment of a returned result reports the 3-D
\* distance between its own two waypoints and the duration derived from them
\* and the configured limits, whichever return of
\* calculate_copter_interpolated_segments produced it.
C26_SegmentsMeasureTheirWaypoints ==
    (Returned /\ config.vehicle_type = "multirotor") =>
        \A k \in 1..Len(result[1].flight_segments) :
            LET s == result[1].flight_segments[k]
                distance == calculate_distance(s.start_waypoint, s.end_waypoint)
            IN  /\ IsOk(distance)
                /\ s.distance_m = distance.val
                /\ s.duration_s = StatedDuration(k)

\* ------------------------------------------------------------------------
\* Groups and stored sessions
\* ------------------------------------------------------------------------

\* How often user appears in the member list of a group
Occurrences(group_id, user) == Cardinality({k \in 1..Len(user_groups[group_id].members) : user_groups[group_id].members[k] = user})

\* C27: in every committed state of the database, which is every state another
\* request can observe, the owner of each existing group appears in its member
\* list exactly once and no user appears in a member list twice.
C27_OwnerIsMemberExactlyOnce ==
    \A g \in 1..Len(user_groups) :
        /\ Occurrences(g, user_groups[g].owner_id) = 1
        /\ \A u \in Users : Occurrences(g, u) <= 1

\* The endpoints that disclose, rename or delete stored sessions
SessionEndpoints == {"get_sessions", "get_session", "restore_session", "update_session_name", "delete_session"}

\* A step in which a request of one of the given endpoints is answered
Answers(endpoints) == response' # response /\ response' # <<>> /\ response'[1].endpoint \in endpoints

\* C28: whenever a session endpoint discloses, renames or deletes a stored
\* session, the caller is an authenticated user for whom can_access_session
\* held when the request was made.
C28_SessionsServedToAuthorizedUsersOnly ==
    [][Answers(SessionEndpoints) =>
           \A s \in response'[1].sessions :
               /\ response'[1].caller \in Users
               /\ can_access_session(s, response'[1].caller)]_vars

\* A name that update_session_name refuses: missing, empty or blank
Blank(name) == name = NoName \/ Strip(name) = ""

\* The stored sessions and their segments stay as they are
SessionsUnchanged == UNCHANGED <<simulation_sessions, flight_segments>>

\* C29: update_session_name with an empty or blank name answers 400,
\* update_session_name and delete_session for a session id that does not exist
\* answer 404, and in each of these cases the stored sessions are unchanged.
C29_ErrorOutcomesKeepTheirStatus ==
    [][/\ (Answers({"update_session_name"}) /\ Blank(response'[1].name))
            => (response'[1].status = 400 /\ SessionsUnchanged)
       /\ (Answers({"update_session_name"}) /\ ~Blank(response'[1].name)
                /\ ~SessionExists(response'[1].session_id))
            => (response'[1].status = 404 /\ SessionsUnchanged)
       /\ (Answers({"delete_session"}) /\ ~SessionExists(response'[1].session_id))
            => (response'[1].status = 404 /\ SessionsUnchanged)]_vars

\* The rows of flight_segments that belong to a session
StoredSegments(rows, session_id) == SelectSeq(rows, LAMBDA row : row.session_id = session_id)

\* C30: when run_simulation has computed the result of an authenticated
\* request, it answers 200, stores exactly one session, owned by the caller,
\* with one stored flight segment for every segment of the result, and
\* returns that session's id.
C30_SimulationIsStoredForItsOwner ==
    [][(pc = "returned" /\ Answers({"run_simulation"})) =>
           /\ response'[1].status = 200
           /\ Len(simulation_sessions') = Len(simulation_sessions) + 1
           /\ response'[1].session_id = Len(simulation_sessions')
           /\ simulation_sessions'[Len(simulation_sessions')].present
           /\ simulation_sessions'[Len(simulation_sessions')].owner_id = response'[1].caller
           /\ Len(StoredSegments(flight_segments', Len(simulation_sessions')))
                  = Len(result[1].flight_segments)]_vars

====
